---------------------------- MODULE Spec2Model ----------------------------
(***************************************************************************)
(* dos-actors: the actor tick loop (src/src/actor.rs), the input/output    *)
(* ports over flume channels (src/src/io.rs, src/src/io/output.rs), the    *)
(* output builder (src/src/lib.rs) and the standard clients                *)
(* (src/src/clients/mod.rs, src/examples/*.rs).                            *)
(*                                                                         *)
(* A state is one model of actors (the graph g, fixed at construction)     *)
(* together with the position of every actor task, the content of every    *)
(* channel and the state of every client.  Every actor is one tokio task:  *)
(* it runs until it suspends in a send_async or recv_async, so the tasks   *)
(* interleave at the channel operations, and an action is one channel      *)
(* operation followed by everything its task does up to the next await.    *)
(***************************************************************************)
EXTENDS Integers, Sequences, FiniteSets, TLC

\* Largest number of envelopes a Signal client emits before write is None.
NStep == 4

\* usize::MAX, the capacity that asks for flume::unbounded (31-bit here).
USIZE_MAX == 2147483647

\* ActorOutputBuilder::new: capacity: vec![1; n]
DefaultCapacity == 1

Max(x, y) == IF x >= y THEN x ELSE y

Range(s) == {s[i] : i \in DOMAIN s}

IsPrefix(s, t) == Len(s) <= Len(t) /\ SubSeq(t, 1, Len(s)) = s

----------------------------------------------------------------------------
(* Graph construction: add_output().bootstrap().multiplex(n).build()       *)

\* One Output of an actor: its senders (channel ids) and its bootstrap flag.
Output(tx, bootstrap) == [tx |-> tx, bootstrap |-> bootstrap]

\* Signal -> Logging, rates 1,1.
Line(k) ==
  [ name     |-> "line",
    kind     |-> <<"Signal", "Logging">>,
    NI       |-> <<0, 1>>,
    NO       |-> <<1, 0>>,
    n_step   |-> <<k, 0>>,
    inputs   |-> << <<>>, <<1>> >>,
    outputs  |-> << <<Output(<<1>>, FALSE)>>, <<>> >>,
    capacity |-> <<DefaultCapacity>> ]

\* Signal (rate 1) -> Sampler<NI=1,NO=2> -> Logging (rate 2).
Decimate(k) ==
  [ name     |-> "decimate",
    kind     |-> <<"Signal", "Sampler", "Logging">>,
    NI       |-> <<0, 1, 2>>,
    NO       |-> <<1, 2, 0>>,
    n_step   |-> <<k, 0, 0>>,
    inputs   |-> << <<>>, <<1>>, <<2>> >>,
    outputs  |-> << <<Output(<<1>>, FALSE)>>, <<Output(<<2>>, FALSE)>>, <<>> >>,
    capacity |-> <<DefaultCapacity, DefaultCapacity>> ]

\* Signal (rate 2) -> Sampler<NI=2,NO=1> -> Logging (rate 1).
Upsample(k) ==
  [ name     |-> "upsample",
    kind     |-> <<"Signal", "Sampler", "Logging">>,
    NI       |-> <<0, 2, 1>>,
    NO       |-> <<2, 1, 0>>,
    n_step   |-> <<k, 0, 0>>,
    inputs   |-> << <<>>, <<1>>, <<2>> >>,
    outputs  |-> << <<Output(<<1>>, FALSE)>>, <<Output(<<2>>, FALSE)>>, <<>> >>,
    capacity |-> <<DefaultCapacity, DefaultCapacity>> ]

\* Signal with one output multiplexed to two Logging sinks.
FanOut(k) ==
  [ name     |-> "fanout",
    kind     |-> <<"Signal", "Logging", "Logging">>,
    NI       |-> <<0, 1, 1>>,
    NO       |-> <<1, 0, 0>>,
    n_step   |-> <<k, 0, 0>>,
    inputs   |-> << <<>>, <<1>>, <<2>> >>,
    outputs  |-> << <<Output(<<1, 2>>, FALSE)>>, <<>>, <<>> >>,
    capacity |-> <<DefaultCapacity, DefaultCapacity>> ]

\* examples/simple-feedback.rs: source => compensator => integrator =>
\* compensator => sink, the integrator output bootstrapped.
Feedback(k) ==
  [ name     |-> "feedback",
    kind     |-> <<"Signal", "Compensator", "Integrator", "Logging">>,
    NI       |-> <<0, 1, 1, 1>>,
    NO       |-> <<1, 1, 1, 0>>,
    n_step   |-> <<k, 0, 0, 0>>,
    inputs   |-> << <<>>, <<1, 3>>, <<2>>, <<4>> >>,
    outputs  |-> << <<Output(<<1>>, FALSE)>>,
                    <<Output(<<2>>, FALSE), Output(<<4>>, FALSE)>>,
                    <<Output(<<3>>, TRUE)>>,
                    <<>> >>,
    capacity |-> <<DefaultCapacity, DefaultCapacity, DefaultCapacity,
                   DefaultCapacity>> ]

\* tests/zero_mount-m1-m2-tt.rs in small: a plant (1,1) feeds a decimator
\* (1,R) that feeds an upsampler (R,1) that feeds the plant back, R = 2; the
\* plant output to the decimator (fem -> m1_hp_loadcells), the decimator
\* output and the upsampler output (m1_segment -> fem) are bootstrapped when
\* flagged; the plant also feeds a rate-1 sink.
Loop(k, plant, decimator, upsampler) ==
  [ name     |-> "loop",
    kind     |-> <<"Signal", "Compensator", "Sampler", "Sampler", "Logging">>,
    NI       |-> <<0, 1, 1, 2, 1>>,
    NO       |-> <<1, 1, 2, 1, 0>>,
    n_step   |-> <<k, 0, 0, 0, 0>>,
    inputs   |-> << <<>>, <<1, 5>>, <<2>>, <<4>>, <<3>> >>,
    outputs  |-> << <<Output(<<1>>, FALSE)>>,
                    <<Output(<<2>>, plant), Output(<<3>>, FALSE)>>,
                    <<Output(<<4>>, decimator)>>,
                    <<Output(<<5>>, upsampler)>>,
                    <<>> >>,
    capacity |-> <<DefaultCapacity, DefaultCapacity, DefaultCapacity,
                   DefaultCapacity, DefaultCapacity>> ]

\* Two initiators that stop at different ticks: the first feeds, through one
\* multiplexed output, a two-input sink and a one-input sink; the second
\* feeds the two-input sink.
TwoSources(k) ==
  [ name     |-> "two-sources",
    kind     |-> <<"Signal", "Signal", "Logging", "Logging">>,
    NI       |-> <<0, 0, 1, 1>>,
    NO       |-> <<1, 1, 0, 0>>,
    n_step   |-> <<k + 2, k \div 2, 0, 0>>,
    inputs   |-> << <<>>, <<>>, <<1, 3>>, <<2>> >>,
    outputs  |-> << <<Output(<<1, 2>>, FALSE)>>, <<Output(<<3>>, FALSE)>>,
                    <<>>, <<>> >>,
    capacity |-> <<DefaultCapacity, DefaultCapacity, DefaultCapacity>> ]

\* A feedback cycle X.out -> Y.in, Y.out -> X.in without any bootstrap.
Cycle(k) ==
  [ name     |-> "cycle",
    kind     |-> <<"Signal", "Compensator", "Sampler">>,
    NI       |-> <<0, 1, 1>>,
    NO       |-> <<1, 1, 1>>,
    n_step   |-> <<k, 0, 0>>,
    inputs   |-> << <<>>, <<1, 3>>, <<2>> >>,
    outputs  |-> << <<Output(<<1>>, FALSE)>>, <<Output(<<2>>, FALSE)>>,
                    <<Output(<<3>>, FALSE)>> >>,
    capacity |-> <<DefaultCapacity, DefaultCapacity, DefaultCapacity>> ]

\* Signal -> Logging over add_output().unbounded().
Unbounded(k) ==
  [ name     |-> "unbounded",
    kind     |-> <<"Signal", "Logging">>,
    NI       |-> <<0, 1>>,
    NO       |-> <<1, 0>>,
    n_step   |-> <<k, 0>>,
    inputs   |-> << <<>>, <<1>> >>,
    outputs  |-> << <<Output(<<1>>, FALSE)>>, <<>> >>,
    capacity |-> <<USIZE_MAX>> ]

\* multiplex(2) with a single into_input: the receiver of channel 2 is
\* dropped with the handle.
Dangling(k) ==
  [ name     |-> "dangling",
    kind     |-> <<"Signal", "Logging">>,
    NI       |-> <<0, 1>>,
    NO       |-> <<1, 0>>,
    n_step   |-> <<k, 0>>,
    inputs   |-> << <<>>, <<1>> >>,
    outputs  |-> << <<Output(<<1, 2>>, FALSE)>>, <<>> >>,
    capacity |-> <<DefaultCapacity, DefaultCapacity>> ]

\* Signal -> Logging with rates declared zero on ports that exist: the
\* output of the source (NO = 0) and the input of the sink (NI = 0).
ZeroRates(k) ==
  [ name     |-> "zero-rates",
    kind     |-> <<"Signal", "Logging">>,
    NI       |-> <<0, 0>>,
    NO       |-> <<0, 0>>,
    n_step   |-> <<k, 0>>,
    inputs   |-> << <<>>, <<1>> >>,
    outputs  |-> << <<Output(<<1>>, FALSE)>>, <<>> >>,
    capacity |-> <<DefaultCapacity>> ]

\* Signal -> Logging built as Actor<_, 1, 1> on both sides: a positive
\* inputs rate on the source, a positive outputs rate on the sink.
PositiveRates(k) ==
  [ name     |-> "positive-rates",
    kind     |-> <<"Signal", "Logging">>,
    NI       |-> <<1, 1>>,
    NO       |-> <<1, 1>>,
    n_step   |-> <<k, 0>>,
    inputs   |-> << <<>>, <<1>> >>,
    outputs  |-> << <<Output(<<1>>, FALSE)>>, <<>> >>,
    capacity |-> <<DefaultCapacity>> ]

\* Signal (rate 2) -> Sampler<NI=2,NO=3> -> Logging (rate 3): rates that do
\* not divide evenly.
Ragged(k) ==
  [ name     |-> "ragged",
    kind     |-> <<"Signal", "Sampler", "Logging">>,
    NI       |-> <<0, 2, 3>>,
    NO       |-> <<2, 3, 0>>,
    n_step   |-> <<k, 0, 0>>,
    inputs   |-> << <<>>, <<1>>, <<2>> >>,
    outputs  |-> << <<Output(<<1>>, FALSE)>>, <<Output(<<2>>, FALSE)>>, <<>> >>,
    capacity |-> <<DefaultCapacity, DefaultCapacity>> ]

\* A single actor without inputs and without outputs.
Lone(k) ==
  [ name     |-> "lone",
    kind     |-> <<"Logging">>,
    NI       |-> <<0>>,
    NO       |-> <<0>>,
    n_step   |-> <<0>>,
    inputs   |-> << <<>> >>,
    outputs  |-> << <<>> >>,
    capacity |-> <<>> ]

GraphsOf(k) ==
  { ZeroRates(k), PositiveRates(k), Ragged(k), Lone(k),
    Line(k), Decimate(k), Upsample(k), FanOut(k), Feedback(k),
    Loop(k, TRUE, FALSE, FALSE), Loop(k, FALSE, TRUE, FALSE),
    Loop(k, FALSE, FALSE, TRUE), Loop(k, TRUE, FALSE, TRUE),
    TwoSources(k), Cycle(k), Unbounded(k), Dangling(k) }

Graphs == UNION {GraphsOf(k) : k \in 0..NStep}

\* The graphs with a single initiator on which the termination cascade is
\* followed to its end.
CascadeGraphsOf(k) ==
  { Line(k), Decimate(k), Upsample(k), FanOut(k), Feedback(k),
    Loop(k, TRUE, FALSE, FALSE), Loop(k, FALSE, FALSE, TRUE),
    Cycle(k), Unbounded(k), Dangling(k) }

CascadeGraphs == UNION {CascadeGraphsOf(k) : k \in 0..NStep}

----------------------------------------------------------------------------
VARIABLES
  g,        \* the model of actors: kinds, rates, ports and channels
  actor,    \* actor[a]: the task of actor a, its ports' futures, its client
  channel,  \* channel[c]: the queue of channel c and its two ends
  hist,     \* hist.sent[c], hist.recvd[c]: what crossed channel c (history),
            \* hist.failed[c]: a send on channel c has failed
  handle    \* while the network is built: the output builder or the
            \* (producer, receivers) handle of the statement under way

vars == <<g, actor, channel, hist, handle>>

\* No add_output()... statement is under way.
NoHandle ==
  [ stage |-> "none", p |-> 0, capacity |-> <<>>, bootstrap |-> FALSE,
    rx |-> <<>>, calls |-> 0 ]

Actors == DOMAIN g.kind

Channels == DOMAIN g.capacity

HasInputs(a) == g.inputs[a] # <<>>

HasOutputs(a) == g.outputs[a] # <<>>

\* The channels of all outputs of actor a.
Senders(a) == UNION {Range(g.outputs[a][o].tx) : o \in DOMAIN g.outputs[a]}

\* The channels of the outputs of a that take part in a distribute: the
\* flagged ones in the bootstrap prologue, all of them in the loop.
Driven(a, ph) ==
  UNION {Range(g.outputs[a][o].tx) :
           o \in {p \in DOMAIN g.outputs[a] :
                    ph = "run" \/ g.outputs[a][p].bootstrap}}

\* The channels whose receiver was attached to an actor by into_input.
Attached == UNION {Range(g.inputs[a]) : a \in Actors}

\* The actors built by Initiator: outputs and no inputs.
Initiators == {a \in Actors : ~HasInputs(a) /\ HasOutputs(a)}

\* The actor that owns the senders of channel c.
Producer(c) == CHOOSE a \in Actors : c \in Senders(a)

\* The actor that owns the receiver of an attached channel c.
Consumer(c) == CHOOSE a \in Actors : c \in Range(g.inputs[a])

\* The output of its producer that channel c belongs to.
OutputOf(c) ==
  CHOOSE o \in DOMAIN g.outputs[Producer(c)] :
    c \in Range(g.outputs[Producer(c)][o].tx)

\* OutputObject::bootstrap of the output that channel c belongs to.
Flagged(c) == g.outputs[Producer(c)][OutputOf(c)].bootstrap

----------------------------------------------------------------------------
(* Clients                                                                 *)

Some(v, st) == [some |-> TRUE, value |-> v, client |-> st]

None(st) == [some |-> FALSE, value |-> 0, client |-> st]

\* Client::produce / Write::write: the envelope minted for one distribute.
\* Signal: Some while step < n_step (and step += 1), then None; the sample
\* of step i is written i + 1, a value that tells the samples apart.
\* Sampler, Compensator, Integrator: always Some, of the held value.
\* Constant: a Signal of constant value 1 in fixed point, 2^n_step.
produce(kind, st, n_step) ==
  IF kind = "Signal"
    THEN IF st.step < n_step
           THEN Some(st.step + 1, [st EXCEPT !.step = @ + 1])
           ELSE None(st)
  ELSE IF kind = "Constant"
    THEN IF st.step < n_step
           THEN Some(2 ^ n_step, [st EXCEPT !.step = @ + 1])
           ELSE None(st)
  ELSE Some(st.mem, st)

\* A sample-and-hold client whose read leaves the held value as it was.
consume_stale(kind, st, d) ==
  CASE kind = "Logging"     -> [st EXCEPT !.log = @ \o d]
    [] kind = "Compensator" -> [st EXCEPT !.mem = d[1] - d[2]]
    [] kind = "Integrator"  -> [st EXCEPT !.mem = @ + d[1]]
    [] OTHER                -> st

\* A compensator that adds the feedback to its input.
consume_adding(kind, st, d) ==
  CASE kind = "Logging"        -> [st EXCEPT !.log = @ \o d]
    [] kind = "Sampler"        -> [st EXCEPT !.mem = d[1]]
    [] kind = "Compensator"    -> [st EXCEPT !.mem = d[1] + d[2]]
    [] kind = "Integrator"     -> [st EXCEPT !.mem = @ + d[1]]
    [] kind = "IntegratorHalf" -> [st EXCEPT !.mem = @ + d[1] \div 2]
    [] OTHER                   -> st

\* Client::consume / Read::read on the envelopes of one collect, in input
\* order (Integrator: gain 1; IntegratorHalf: gain 0.5).
consume(kind, st, d) ==
  CASE kind = "Logging"        -> [st EXCEPT !.log = @ \o d]
    [] kind = "Sampler"        -> [st EXCEPT !.mem = d[1]]
    [] kind = "Compensator"    -> [st EXCEPT !.mem = d[1] - d[2]]
    [] kind = "Integrator"     -> [st EXCEPT !.mem = @ + d[1]]
    [] kind = "IntegratorHalf" -> [st EXCEPT !.mem = @ + d[1] \div 2]
    [] OTHER                   -> st

\* Update::update: the default empty implementation.
update(kind, st) == st

\* T::default() / Default::default() of every client.
ClientDefault == [step |-> 0, mem |-> 0, log |-> <<>>]

----------------------------------------------------------------------------
(* Channels: flume::bounded(cap) / flume::unbounded()                      *)

\* A channel built with room for two envelopes.
HasRoomForTwo(ch, c) == Len(ch[c].queue) < 2

\* Every channel built by flume::bounded(1).
HasRoomForOne(ch, c) == Len(ch[c].queue) < DefaultCapacity

\* send_async completes when the queue of the channel has room.
HasRoom(ch, c) ==
  g.capacity[c] = USIZE_MAX \/ Len(ch[c].queue) < g.capacity[c]

Pending == [st |-> "pending", v |-> 0]

AllPending(a) == [i \in DOMAIN g.inputs[a] |-> Pending]

AllIdle(a) == [c \in Senders(a) |-> "idle"]

----------------------------------------------------------------------------
(* Actor::bootstrap and Actor::run, as functions of the task's own state s *)

\* A loop or a branch taken once whatever the rates.
Once(a) == 1

\* The decimation branch taken whatever the rates.
AlwaysDecimation(a) == TRUE

\* NO >= NI: the decimation branch of run and the single bootstrap round.
Decimation(a) == g.NO[a] >= g.NI[a]

\* for _ in 0..NO / NI
DecimationRounds(a) == g.NO[a] \div g.NI[a]

\* for _ in 0..NI / NO
UpsamplingRounds(a) == g.NI[a] \div g.NO[a]

\* The number of distribute rounds of the bootstrap prologue.
BootstrapRounds(a) == IF Decimation(a) THEN 1 ELSE UpsamplingRounds(a)

\* The arm (None, None) of the match taken whatever the ports.
NoPorts(a) == "returned"

\* A run in which an actor with outputs drives them before its first
\* collect.
DistributeFirst(a) ==
  IF HasOutputs(a) THEN "produce"
  ELSE IF HasInputs(a) THEN "collect"
  ELSE "returned"

\* The first statement of run: match (inputs, outputs).
LoopEntry(a) ==
  IF HasInputs(a) THEN "collect"
  ELSE IF HasOutputs(a) THEN "produce"
  ELSE "returned"

\* self.client.lock().await resolved: the task holds the guard of the
\* client mutex.
acquire(s) == [s EXCEPT !.lock = TRUE]

\* A guard kept alive after the statement that took it.
hold(s) == s

\* The guard, a temporary of the statement that calls write, is dropped at
\* the end of that statement.
release(s) == [s EXCEPT !.lock = FALSE]

RECURSIVE locked(_, _)
\* n outputs in turn run self.data = (*self.client.lock().await).write();
\* a lock().await on a mutex whose guard is alive never resolves.
locked(s, n) ==
  IF n = 0 THEN s
  ELSE IF s.lock THEN [s EXCEPT !.pc = "lock"]
  ELSE locked(release(acquire(s)), n - 1)

\* distribute up to its await: (the initiator's update, then) write, under
\* the lock of the client, for every driven output.  On None the task
\* returns Disconnected; on Some the envelope is handed to send_async on
\* every sender of every driven output and the task suspends.
write(a, s) ==
  LET nup == IF s.phase = "run" /\ ~HasInputs(a) THEN 1 ELSE 0
      upd == IF nup = 1 THEN update(g.kind[a], s.client) ELSE s.client
      w   == produce(g.kind[a], upd, g.n_step[a])
      n   == Cardinality({o \in DOMAIN g.outputs[a] :
                            Range(g.outputs[a][o].tx)
                              \subseteq Driven(a, s.phase)})
      t   == locked([s EXCEPT !.client = w.client, !.updates = @ + nup], n)
  IN IF t.pc = "lock" THEN t
     ELSE IF w.some
       THEN [t EXCEPT !.pc = "send",
                      !.data = w.value,
                      !.written = [o \in DOMAIN @ |->
                                     IF Range(g.outputs[a][o].tx)
                                          \subseteq Driven(a, s.phase)
                                       THEN Append(@[o], w.value)
                                       ELSE @[o]],
                      !.tx = [c \in Senders(a) |->
                                IF c \in Driven(a, s.phase) THEN "pending"
                                ELSE "idle"]]
       ELSE [t EXCEPT !.pc = "returned", !.result = "Disconnected"]

\* One distribute per iteration whatever the rates.
AfterOneSend(a, s) == [pc |-> LoopEntry(a), phase |-> "run", count |-> 0]

\* Where the task goes after a distribute that succeeded.
AfterSend(a, s) ==
  IF s.phase = "bootstrap"
    THEN IF s.count + 1 < BootstrapRounds(a)
           THEN [pc |-> "produce", phase |-> "bootstrap", count |-> s.count + 1]
           ELSE [pc |-> LoopEntry(a), phase |-> "run", count |-> 0]
  ELSE IF ~HasInputs(a) \/ Decimation(a)
    THEN [pc |-> LoopEntry(a), phase |-> "run", count |-> 0]
  ELSE IF s.count + 1 < UpsamplingRounds(a)
    THEN [pc |-> "produce", phase |-> "run", count |-> s.count + 1]
  ELSE [pc |-> "collect", phase |-> "run", count |-> 0]

\* A distribute that goes on to the next tick whatever its sends returned.
sent_ignoring(a, s) ==
  LET n == AfterSend(a, s)
      t == [s EXCEPT !.tx = AllIdle(a), !.pc = n.pc, !.phase = n.phase,
                     !.count = n.count,
                     !.distributes[s.phase] = @ + 1]
  IN IF n.pc = "produce" THEN write(a, t) ELSE t

\* distribute after its await: join_all over the sends has every result.  A
\* failed send makes the task return DropSend; otherwise the task goes on to
\* its next collect or its next distribute.
sent(a, s) ==
  IF \E c \in Senders(a) : s.tx[c] = "err"
    THEN [s EXCEPT !.tx = AllIdle(a), !.pc = "returned", !.result = "DropSend"]
    ELSE LET n == AfterSend(a, s)
             t == [s EXCEPT !.tx = AllIdle(a), !.pc = n.pc, !.phase = n.phase,
                            !.count = n.count,
                            !.distributes[s.phase] = @ + 1]
         IN IF n.pc = "produce" THEN write(a, t) ELSE t

\* Where the task goes after a collect that succeeded.
AfterCollect(a, s) ==
  IF ~HasOutputs(a)
    THEN [pc |-> "collect", count |-> 0]
  ELSE IF Decimation(a) /\ s.count + 1 < DecimationRounds(a)
    THEN [pc |-> "collect", count |-> s.count + 1]
  ELSE [pc |-> "produce", count |-> 0]

\* A collect that hands what it got to the client even when an input failed.
collected_partial(a, s) ==
  LET d == [i \in DOMAIN g.inputs[a] |-> s.rx[i].v]
      n == AfterCollect(a, s)
      t == [s EXCEPT !.rx = AllPending(a),
                     !.client = update(g.kind[a], consume(g.kind[a], @, d)),
                     !.updates = @ + 1,
                     !.reads = Append(@, d),
                     !.pc = n.pc, !.count = n.count]
  IN IF \E i \in DOMAIN g.inputs[a] : s.rx[i].st = "err"
       THEN [t EXCEPT !.pc = "returned", !.result = "DropRecv"]
     ELSE IF n.pc = "produce" THEN write(a, t) ELSE t

\* A collect that reports a failed input as Disconnected.
collected_disconnected(a, s) ==
  IF \E i \in DOMAIN g.inputs[a] : s.rx[i].st = "err"
    THEN [s EXCEPT !.rx = AllPending(a), !.pc = "returned",
                   !.result = "Disconnected"]
    ELSE LET d == [i \in DOMAIN g.inputs[a] |-> s.rx[i].v]
             n == AfterCollect(a, s)
             t == [s EXCEPT !.rx = AllPending(a),
                            !.client = update(g.kind[a],
                                              consume(g.kind[a], @, d)),
                            !.updates = @ + 1,
                            !.reads = Append(@, d),
                            !.pc = n.pc, !.count = n.count]
         IN IF n.pc = "produce" THEN write(a, t) ELSE t

\* A collect that returns the envelopes in the reverse of the input order.
collected_reversed(a, s) ==
  IF \E i \in DOMAIN g.inputs[a] : s.rx[i].st = "err"
    THEN [s EXCEPT !.rx = AllPending(a), !.pc = "returned",
                   !.result = "DropRecv"]
    ELSE LET m == Len(g.inputs[a])
             d == [i \in DOMAIN g.inputs[a] |-> s.rx[m + 1 - i].v]
             n == AfterCollect(a, s)
             t == [s EXCEPT !.rx = AllPending(a),
                            !.client = update(g.kind[a],
                                              consume(g.kind[a], @, d)),
                            !.updates = @ + 1,
                            !.reads = Append(@, d),
                            !.pc = n.pc, !.count = n.count]
         IN IF n.pc = "produce" THEN write(a, t) ELSE t

\* collect after its await: join_all over the recvs has every result.  Any
\* DropRecv makes the task return DropRecv; otherwise the envelopes go to
\* the client (consume), which is updated once, and the task goes on to its
\* next collect or to distribute.
collected(a, s) ==
  IF \E i \in DOMAIN g.inputs[a] : s.rx[i].st = "err"
    THEN [s EXCEPT !.rx = AllPending(a), !.pc = "returned",
                   !.result = "DropRecv"]
    ELSE LET d == [i \in DOMAIN g.inputs[a] |-> s.rx[i].v]
             n == AfterCollect(a, s)
             t == [s EXCEPT !.rx = AllPending(a),
                            !.client = update(g.kind[a],
                                              consume(g.kind[a], @, d)),
                            !.updates = @ + 1,
                            !.reads = Append(@, d),
                            !.pc = n.pc, !.count = n.count]
         IN IF n.pc = "produce" THEN write(a, t) ELSE t

\* The task resumed when the first of its futures resolves (select_all).
resume_any(a, s) ==
  CASE s.pc = "collect" /\ (\A i \in DOMAIN s.rx : s.rx[i].st # "pending")
         -> collected(a, s)
    [] s.pc = "send" /\ (\E c \in Senders(a) : s.tx[c] \in {"ok", "err"})
         -> sent(a, s)
    [] OTHER -> s

\* The task once one more future of its join_all has resolved.
resume(a, s) ==
  CASE s.pc = "collect" /\ (\A i \in DOMAIN s.rx : s.rx[i].st # "pending")
         -> collected(a, s)
    [] s.pc = "send" /\ (\A c \in Senders(a) : s.tx[c] # "pending")
         -> sent(a, s)
    [] OTHER -> s

\* An actor as built: no future pending, the client in its default state.
\* lock: the task holds the guard of its client's mutex.
\* The last four fields are bookkeeping: the calls of update, the values
\* written for every output, the data of every consume, the distributes
\* completed in the prologue and in the loop.
Built(a) ==
  [ pc          |-> "spawned",
    phase       |-> "bootstrap",
    count       |-> 0,
    lock        |-> FALSE,
    rx          |-> AllPending(a),
    tx          |-> AllIdle(a),
    data        |-> 0,
    client      |-> ClientDefault,
    result      |-> "running",
    updates     |-> 0,
    written     |-> [o \in DOMAIN g.outputs[a] |-> <<>>],
    reads       |-> <<>>,
    distributes |-> [bootstrap |-> 0, run |-> 0] ]

\* The task of an actor up to its first await: the bootstrap prologue when
\* some output is flagged, the loop of run otherwise.
spawn(a) ==
  IF HasOutputs(a) /\ Driven(a, "bootstrap") # {}
    THEN write(a, [Built(a) EXCEPT !.pc = "produce"])
    ELSE LET t == [Built(a) EXCEPT !.pc = LoopEntry(a), !.phase = "run"]
         IN CASE t.pc = "produce"  -> write(a, t)
              [] t.pc = "returned" -> [t EXCEPT !.result = "Ok"]
              [] OTHER             -> t

\* Output::disconnect / Actor::disconnect, and the for-loop of
\* OutputObject::send on None: drop is applied to a reference to each
\* Sender, which leaves the Sender itself, and so the channel, connected.
disconnect(a, ch) == ch

\* collect on DropRecv and distribute on None call disconnect.
closing(a, t, ch) ==
  IF t.pc = "returned" /\ t.result \in {"DropRecv", "Disconnected"}
    THEN disconnect(a, ch)
    ELSE ch

----------------------------------------------------------------------------
(* The channel operations, as functions of the state S of the model        *)

\* Every initiator has returned from run.
SourceReturned(S) ==
  \A a \in Initiators : S.actor[a].pc \in {"returned", "dropped"}

\* rx.recv_async() completes with the oldest envelope of the channel.
CanRecvOk(S, a, i) ==
  /\ S.actor[a].pc = "collect"
  /\ S.actor[a].rx[i].st = "pending"
  /\ S.channel[g.inputs[a][i]].queue # <<>>

recv_ok(S, a, i) ==
  LET c == g.inputs[a][i]
      v == Head(S.channel[c].queue)
      t == resume(a, [S.actor[a] EXCEPT !.rx[i] = [st |-> "ok", v |-> v]])
      late == IF t.updates > S.actor[a].updates /\ SourceReturned(S)
                THEN 1 ELSE 0
  IN [ actor   |-> [S.actor EXCEPT ![a] = t],
       channel |-> closing(a, t, [S.channel EXCEPT ![c].queue = Tail(@)]),
       hist    |-> [S.hist EXCEPT !.recvd[c] = Append(@, v),
                                  !.after[a] = @ + late] ]

\* A recv that fails as soon as every sender was dropped, whatever the
\* channel still holds.
CanRecvErrEarly(S, a, i) ==
  /\ S.actor[a].pc = "collect"
  /\ S.actor[a].rx[i].st = "pending"
  /\ ~S.channel[g.inputs[a][i]].sender

\* rx.recv_async() fails: the channel is empty and every sender was dropped.
CanRecvErr(S, a, i) ==
  /\ S.actor[a].pc = "collect"
  /\ S.actor[a].rx[i].st = "pending"
  /\ S.channel[g.inputs[a][i]].queue = <<>>
  /\ ~S.channel[g.inputs[a][i]].sender

recv_err(S, a, i) ==
  LET t == resume(a, [S.actor[a] EXCEPT !.rx[i] = [st |-> "err", v |-> 0]])
  IN [ actor   |-> [S.actor EXCEPT ![a] = t],
       channel |-> closing(a, t, S.channel),
       hist    |-> S.hist ]

\* A send that completes only while every receiver of the output is alive.
CanSendOkWhole(S, a, c) ==
  /\ S.actor[a].pc = "send"
  /\ c \in Senders(a)
  /\ S.actor[a].tx[c] = "pending"
  /\ \A o \in DOMAIN g.outputs[a] :
       c \in Range(g.outputs[a][o].tx) =>
         \A d \in Range(g.outputs[a][o].tx) : S.channel[d].receiver
  /\ HasRoom(S.channel, c)

\* tx.send_async(data.clone()) completes: the receiver is alive and the
\* channel has room.
CanSendOk(S, a, c) ==
  /\ S.actor[a].pc = "send"
  /\ c \in Senders(a)
  /\ S.actor[a].tx[c] = "pending"
  /\ S.channel[c].receiver
  /\ HasRoom(S.channel, c)

send_ok(S, a, c) ==
  LET v == S.actor[a].data
      t == resume(a, [S.actor[a] EXCEPT !.tx[c] = "ok"])
      b == IF S.actor[a].phase = "bootstrap" THEN 1 ELSE 0
  IN [ actor   |-> [S.actor EXCEPT ![a] = t],
       channel |-> closing(a, t, [S.channel EXCEPT ![c].queue = Append(@, v)]),
       hist    |-> [S.hist EXCEPT !.sent[c] = Append(@, v),
                                  !.boot[c] = @ + b] ]

\* A send that waits whatever became of the receiver.
NeverFails(S, a, c) == FALSE

\* tx.send_async fails: every receiver of the channel has been dropped.
CanSendErr(S, a, c) ==
  /\ S.actor[a].pc = "send"
  /\ c \in Senders(a)
  /\ S.actor[a].tx[c] = "pending"
  /\ ~S.channel[c].receiver

send_err(S, a, c) ==
  LET t == resume(a, [S.actor[a] EXCEPT !.tx[c] = "err"])
  IN [ actor   |-> [S.actor EXCEPT ![a] = t],
       channel |-> closing(a, t, S.channel),
       hist    |-> [S.hist EXCEPT !.failed[c] = TRUE] ]

\* The task ends and its channel ends are leaked.
leak(S, a) == [S EXCEPT !.actor[a].pc = "dropped"]

\* The task has returned: the actor it owned is dropped, and with it every
\* Receiver of its inputs and every Sender of its outputs.
CanDrop(S, a) == S.actor[a].pc = "returned"

drop(S, a) ==
  [ actor   |-> [S.actor EXCEPT ![a].pc = "dropped"],
    channel |-> [c \in Channels |->
                   [S.channel[c] EXCEPT
                      !.sender = @ /\ c \notin Senders(a),
                      !.receiver = @ /\ c \notin Range(g.inputs[a])]],
    hist    |-> S.hist ]

\* The model as run with every receiver kept alive, attached or not.
StartedHeld ==
  [ actor   |-> [a \in Actors |-> spawn(a)],
    channel |-> [c \in Channels |->
                   [queue |-> <<>>, sender |-> TRUE, receiver |-> TRUE]],
    hist    |-> [sent  |-> [c \in Channels |-> <<>>],
                 recvd |-> [c \in Channels |-> <<>>],
                 boot  |-> [c \in Channels |-> 0],
                 failed |-> [c \in Channels |-> FALSE],
                 after |-> [a \in Actors |-> 0]] ]

\* The model as run: every actor spawned, every task at its first await,
\* every channel empty with both ends alive (a receiver that no actor took
\* was dropped with the builder's result).
Started ==
  [ actor   |-> [a \in Actors |-> spawn(a)],
    channel |-> [c \in Channels |->
                   [queue |-> <<>>, sender |-> TRUE,
                    receiver |-> c \in Attached]],
    hist    |-> [sent  |-> [c \in Channels |-> <<>>],
                 recvd |-> [c \in Channels |-> <<>>],
                 boot  |-> [c \in Channels |-> 0],
                 failed |-> [c \in Channels |-> FALSE],
                 after |-> [a \in Actors |-> 0]] ]

----------------------------------------------------------------------------
State == [actor |-> actor, channel |-> channel, hist |-> hist]

Becomes(S) ==
  /\ actor' = S.actor
  /\ channel' = S.channel
  /\ hist' = S.hist
  /\ UNCHANGED <<g, handle>>

RecvOk(a, i) == CanRecvOk(State, a, i) /\ Becomes(recv_ok(State, a, i))

RecvErr(a, i) == CanRecvErr(State, a, i) /\ Becomes(recv_err(State, a, i))

SendOk(a, c) == CanSendOk(State, a, c) /\ Becomes(send_ok(State, a, c))

SendErr(a, c) == CanSendErr(State, a, c) /\ Becomes(send_err(State, a, c))

Drop(a) == CanDrop(State, a) /\ Becomes(drop(State, a))

\* One of the graphs G, built and started.
Starts(G) ==
  /\ g \in G
  /\ actor = Started.actor
  /\ channel = Started.channel
  /\ hist = Started.hist
  /\ handle = NoHandle

Init == Starts(Graphs)

CascadeInit == Starts(CascadeGraphs)

Next ==
  \/ \E a \in Actors : \E i \in DOMAIN g.inputs[a] : RecvOk(a, i)
  \/ \E a \in Actors : \E i \in DOMAIN g.inputs[a] : RecvErr(a, i)
  \/ \E a \in Actors : \E c \in Senders(a) : SendOk(a, c)
  \/ \E a \in Actors : \E c \in Senders(a) : SendErr(a, c)
  \/ \E a \in Actors : Drop(a)

Spec == Init /\ [][Next]_vars

\* tokio runs every task that is ready: some enabled step is taken.
FairSpec == CascadeInit /\ [][Next]_vars /\ WF_vars(Next)

----------------------------------------------------------------------------
(* One interleaving, fixed: the reference of the determinism claims        *)

\* The channel operations and drops that can happen in S.
Ops(S) ==
  {o \in [op : {"RecvOk", "RecvErr"}, a : Actors, p : Channels] :
     /\ o.p \in DOMAIN g.inputs[o.a]
     /\ IF o.op = "RecvOk" THEN CanRecvOk(S, o.a, o.p)
                           ELSE CanRecvErr(S, o.a, o.p)}
  \cup
  {o \in [op : {"SendOk", "SendErr"}, a : Actors, p : Channels] :
     IF o.op = "SendOk" THEN CanSendOk(S, o.a, o.p)
                        ELSE CanSendErr(S, o.a, o.p)}
  \cup
  {o \in [op : {"Drop"}, a : Actors, p : {0}] : CanDrop(S, o.a)}

\* S after the operation o.
apply(S, o) ==
  CASE o.op = "RecvOk"  -> recv_ok(S, o.a, o.p)
    [] o.op = "RecvErr" -> recv_err(S, o.a, o.p)
    [] o.op = "SendOk"  -> send_ok(S, o.a, o.p)
    [] o.op = "SendErr" -> send_err(S, o.a, o.p)
    [] o.op = "Drop"    -> drop(S, o.a)

RECURSIVE Run(_)
\* The state in which the interleaving that always takes the same one of
\* the operations that can happen comes to rest.
Run(S) ==
  IF Ops(S) = {} THEN S ELSE Run(apply(S, CHOOSE o \in Ops(S) : TRUE))

----------------------------------------------------------------------------
(* Graph properties used by the claims                                     *)

\* The rate of an actor on a cycle: the larger of its two rates.
Rate(a) == Max(g.NI[a], g.NO[a])

\* b collects from a channel of a that starts empty for a consumer at rate
\* r: the output is not bootstrapped, or its actor runs at a rate below r.
Feeds(a, b, r) ==
  \E c \in Senders(a) \cap Range(g.inputs[b]) : ~Flagged(c) \/ Rate(a) < r

RECURSIVE Reach(_, _, _)
\* The actors reached from the set S over Feeds(_, _, r), in at most n steps.
Reach(S, r, n) ==
  IF n = 0 THEN S
  ELSE Reach(S \cup {b \in Actors : \E a \in S : Feeds(a, b, r)}, r, n - 1)

\* a lies on a cycle of Feeds(_, _, r).
OnCycle(a, r) ==
  a \in Reach({b \in Actors : Feeds(a, b, r)}, r, Cardinality(Actors))

\* Every feedback cycle has at least one bootstrapped output.
EveryCycleBootstrapped == \A a \in Actors : ~OnCycle(a, 0)

\* Every feedback cycle has a bootstrapped output on an actor whose rate is
\* the largest rate on the cycle.
EveryCycleBootstrappedAtRate == \A a \in Actors : ~OnCycle(a, Rate(a))

AllDropped == \A a \in Actors : actor[a].pc = "dropped"

\* Some task can take a step.
CanStep == Ops(State) # {}

\* No task can take a step while an initiator is suspended in a send.
Deadlock == ~CanStep /\ \E a \in Initiators : actor[a].pc = "send"

----------------------------------------------------------------------------
----------------------------------------------------------------------------
\* The actors built with inputs and outputs: the transforms.
Transforms == {a \in Actors : HasInputs(a) /\ HasOutputs(a)}

\* The channels of output o of actor a.
Tx(a, o) == Range(g.outputs[a][o].tx)

UniqueSource == Cardinality(Initiators) = 1

\* The number of envelopes the source emits before its write returns None.
K == g.n_step[CHOOSE a \in Initiators : TRUE]

RECURSIVE MaxOver(_, _)
\* The largest value of r[a], a in S (0 for no actor).
MaxOver(r, S) ==
  IF S = {} THEN 0
  ELSE LET a == CHOOSE x \in S : TRUE
       IN Max(r[a], MaxOver(r, S \ {a}))

\* max(rate-ratio): the largest rate of the graph over the smallest, which
\* is 1 in every graph with a single source and rates that divide.
MaxRateRatio == MaxOver([a \in Actors |-> Rate(a)], Actors)

RECURSIVE Sum(_, _)
Sum(f, S) ==
  IF S = {} THEN 0
  ELSE LET c == CHOOSE x \in S : TRUE
       IN f[c] + Sum(f, S \ {c})

\* The envelopes sent by the bootstrap prologues of the graph.
BootstrapEnvelopes ==
  Sum([c \in Channels |->
         IF ~Flagged(c) THEN 0
         ELSE IF g.NI[Producer(c)] > g.NO[Producer(c)]
           THEN g.NI[Producer(c)] \div g.NO[Producer(c)]
           ELSE 1],
      Channels)

\* Every task has returned from run.
AllTerminated == \A a \in Actors : actor[a].pc \in {"returned", "dropped"}

\* No non-source actor ticked (update) more than n times after the source
\* returned.
TicksAfterSource(n) == \A a \in Actors \ Initiators : hist.after[a] <= n

----------------------------------------------------------------------------
----------------------------------------------------------------------------
\* C3 (as claimed): when the write of an output returns None, the send
\* reports Disconnected and every sender of the output is disconnected.
C3_DisconnectsOnNone ==
  \A a \in Actors :
    actor[a].result = "Disconnected" =>
      \A c \in Senders(a) : ~channel[c].sender

----------------------------------------------------------------------------
\* The distributes that drove output o of actor a and completed.
Completed(a, o) ==
  (IF g.outputs[a][o].bootstrap THEN actor[a].distributes.bootstrap ELSE 0)
  + actor[a].distributes.run

\* The distributes that drove output o of actor a, the one in flight included.
Distributes(a, o) ==
  Completed(a, o)
  + (IF /\ actor[a].pc = "send"
        /\ (actor[a].phase = "run" \/ g.outputs[a][o].bootstrap)
       THEN 1 ELSE 0)

\* C4: a decimating transform (inputs and outputs, NO >= NI) makes NO/NI
\* rounds of collect, consume, update and then drives every output once: the
\* client is updated NO/NI times per distribute, one write and one send per
\* output and distribute.
C4_DecimatingRounds ==
  \A a \in Transforms :
    g.NO[a] >= g.NI[a] =>
      LET s == actor[a]
          r == g.NO[a] \div g.NI[a]
          n == s.distributes.run
      IN /\ Len(s.reads) = s.updates
         /\ (s.pc = "collect" \/ s.result = "DropRecv") =>
              /\ s.count < r
              /\ s.updates = n * r + s.count
         /\ (s.phase = "run" /\ (s.pc = "send" \/ s.result = "DropSend")) =>
              s.updates = (n + 1) * r
         /\ s.pc = "collect" =>
              \A c \in Senders(a) : Len(hist.sent[c]) = n + hist.boot[c]
         /\ s.pc \in {"collect", "send"} =>
              \A o \in DOMAIN g.outputs[a] :
                Len(s.written[o]) = Distributes(a, o)

\* C4 witness: the sampler of rates (1,2) has sent its second envelope after
\* four updates.
C4_Witness ==
  /\ g = Decimate(NStep)
  /\ actor[2].distributes.run = 2
  /\ actor[2].updates = 4
  /\ actor[2].pc = "collect"

----------------------------------------------------------------------------
\* C5: an upsampling transform (inputs and outputs, NI > NO) collects,
\* consumes and updates once and then drives every output NI/NO times, with
\* one write per output and distribute.
C5_UpsamplingRounds ==
  \A a \in Transforms :
    g.NI[a] > g.NO[a] =>
      LET s == actor[a]
          r == g.NI[a] \div g.NO[a]
          n == s.distributes.run
      IN /\ Len(s.reads) = s.updates
         /\ (s.pc = "collect" \/ s.result = "DropRecv") =>
              /\ s.count = 0
              /\ n = s.updates * r
         /\ (s.phase = "run" /\ (s.pc = "send" \/ s.result = "DropSend")) =>
              /\ s.count < r
              /\ s.updates >= 1
              /\ n = (s.updates - 1) * r + s.count
         /\ s.pc = "collect" =>
              \A c \in Senders(a) : Len(hist.sent[c]) = n + hist.boot[c]
         /\ s.pc \in {"collect", "send"} =>
              \A o \in DOMAIN g.outputs[a] :
                Len(s.written[o]) = Distributes(a, o)

\* C5 witness: the sampler of rates (2,1) has sent four envelopes after two
\* updates.
C5_Witness ==
  /\ g = Upsample(NStep)
  /\ actor[2].updates = 2
  /\ actor[2].distributes.run = 4
  /\ actor[2].pc = "collect"

----------------------------------------------------------------------------
\* N * max(1, p/c) / max(1, c/p), in the integers.
Adapted(N, p, c) == (N * Max(1, p \div c)) \div Max(1, c \div p)

\* C6 (as claimed): for every producer-consumer pair across a transform of
\* rates (p,c), the producer having generated N envelopes, the consumer has
\* received exactly N * max(1,p/c) / max(1,c/p) envelopes at the end.
C6_RateAdaptation ==
  AllDropped =>
    \A a \in Transforms :
      \A i \in DOMAIN g.inputs[a] :
        \A c \in Senders(a) \cap Attached :
          Len(hist.recvd[c]) =
            Adapted(Len(hist.sent[g.inputs[a][i]]), g.NI[a], g.NO[a])

\* C6 (amended): for a transform of rates (p,c) with one input and no
\* bootstrapped output, when the stream ends from upstream (the transform
\* stops on DropRecv and the consumer has taken every envelope sent to it)
\* the consumer has received exactly N * max(1,p/c) / max(1,c/p) envelopes
\* rounded down, N the envelopes the producer sent; N need not be a multiple
\* of the ratio.
C6_RateAdaptationDownstream ==
  AllDropped =>
    \A a \in Transforms :
      (Len(g.inputs[a]) = 1 /\ actor[a].result = "DropRecv") =>
        \A c \in Senders(a) \cap Attached :
          (~Flagged(c) /\ channel[c].queue = <<>>) =>
            Len(hist.recvd[c]) =
              Adapted(Len(hist.sent[g.inputs[a][1]]), g.NI[a], g.NO[a])

\* C6 witness: three envelopes decimated by two, one received.
C6_Witness ==
  /\ g = Decimate(3)
  /\ AllDropped
  /\ Len(hist.sent[1]) = 3
  /\ Len(hist.recvd[2]) = 1
  /\ actor[2].result = "DropRecv"
  /\ channel[2].queue = <<>>

----------------------------------------------------------------------------
----------------------------------------------------------------------------
\* C8: on a channel of capacity 1 the sends completed are at most one ahead
\* of the envelopes received; so the sends an output has completed (on all
\* its channels) are at most one ahead of its slowest consumer.
C8_ChannelCapacity ==
  \A a \in Actors :
    \A o \in DOMAIN g.outputs[a] :
      \A c \in Tx(a, o) :
        g.capacity[c] = 1 =>
          /\ Len(hist.sent[c]) <= Len(hist.recvd[c]) + 1
          /\ Completed(a, o) <= Len(hist.recvd[c]) + 1

\* C8 witness: a producer suspended in a send, one envelope ahead of its
\* consumer, the channel full.
C8_Witness ==
  \E a \in Actors :
    \E c \in Senders(a) :
      /\ g.capacity[c] = 1
      /\ actor[a].pc = "send"
      /\ actor[a].tx[c] = "pending"
      /\ Len(hist.recvd[c]) >= 2
      /\ Len(hist.sent[c]) = Len(hist.recvd[c]) + 1

----------------------------------------------------------------------------
\* What every client has read when the fixed interleaving comes to rest.
Reference == [a \in Actors |-> Run(Started).actor[a].reads]

\* C9 (as claimed): the sequence of envelopes read by each client, and so the
\* content of every logging sink at termination, is the same under every
\* interleaving: it is the one of the fixed interleaving.
C9_Determinism ==
  ~CanStep => \A a \in Actors : actor[a].reads = Reference[a]

----------------------------------------------------------------------------
----------------------------------------------------------------------------
(* Model::check                                                            *)

\* A check of the inputs that accepts every actor.
check_inputs_lenient(a) == "Ok"

\* Task::check on the inputs of actor a: the declared rate NI against the
\* ports that exist.
check_inputs(a) ==
  IF HasInputs(a) /\ g.NI[a] = 0 THEN "SomeInputsZeroRate"
  ELSE IF ~HasInputs(a) /\ g.NI[a] > 0 THEN "NoInputsPositiveRate"
  ELSE "Ok"

\* Task::check on the outputs of actor a: NO against the ports that exist.
check_outputs(a) ==
  IF HasOutputs(a) /\ g.NO[a] = 0 THEN "SomeOutputsZeroRate"
  ELSE IF ~HasOutputs(a) /\ g.NO[a] > 0 THEN "NoOutputsPositiveRate"
  ELSE "Ok"

\* The rates of a transform divide evenly in the direction of the ratio.
DividesEvenly(a) ==
  IF g.NO[a] >= g.NI[a] THEN g.NO[a] % g.NI[a] = 0
                        ELSE g.NI[a] % g.NO[a] = 0

\* The first of the actors in S, in the order of the list given to Model::new.
First(S) == CHOOSE a \in S : \A b \in S : a <= b

\* The actors on the cycle without a bootstrapped output that goes through a.
CycleOf(a) ==
  {b \in Actors : /\ b \in Reach({a}, 0, Cardinality(Actors))
                  /\ a \in Reach({b}, 0, Cardinality(Actors))}

Passed == [err |-> "Ok", who |-> {}]

\* A check of rates and ports only.
check_ports_only ==
  LET ports == {a \in Actors : check_inputs(a) # "Ok" \/ check_outputs(a) # "Ok"}
  IN IF ports # {}
       THEN [err |-> IF check_inputs(First(ports)) # "Ok"
                       THEN check_inputs(First(ports))
                       ELSE check_outputs(First(ports)),
             who |-> {First(ports)}]
       ELSE Passed

\* Model::check on the graph: (a) rates against ports, (b) rates that divide
\* evenly, (c) a bootstrapped output on every cycle.  The result is Ok or
\* the first error, with the actors it names.
check ==
  LET ports  == {a \in Actors : check_inputs(a) # "Ok" \/ check_outputs(a) # "Ok"}
      uneven == {a \in Transforms : ~DividesEvenly(a)}
      cyclic == {a \in Actors : OnCycle(a, 0)}
  IN IF ports # {}
       THEN [err |-> IF check_inputs(First(ports)) # "Ok"
                       THEN check_inputs(First(ports))
                       ELSE check_outputs(First(ports)),
             who |-> {First(ports)}]
     ELSE IF uneven # {}
       THEN [err |-> "UnevenRates", who |-> {First(uneven)}]
     ELSE IF cyclic # {}
       THEN [err |-> "MissingBootstrap", who |-> CycleOf(First(cyclic))]
     ELSE Passed

----------------------------------------------------------------------------
----------------------------------------------------------------------------
\* The declared rates of actor a match its ports.
RatesMatchPorts(a) ==
  /\ HasInputs(a) <=> g.NI[a] > 0
  /\ HasOutputs(a) <=> g.NO[a] > 0

\* C12: check verifies that rates match ports.  An actor with inputs and
\* NI = 0 yields SomeInputsZeroRate, one without inputs and NI > 0 yields
\* NoInputsPositiveRate, and symmetrically SomeOutputsZeroRate and
\* NoOutputsPositiveRate on the outputs; an actor whose rates match its
\* ports passes both checks, and a model with a mismatch is rejected with
\* the error of a mismatched actor.
C12_RatesMatchPorts ==
  /\ \A a \in Actors :
       /\ (HasInputs(a) /\ g.NI[a] = 0)
             => check_inputs(a) = "SomeInputsZeroRate"
       /\ (~HasInputs(a) /\ g.NI[a] > 0)
             => check_inputs(a) = "NoInputsPositiveRate"
       /\ (HasOutputs(a) /\ g.NO[a] = 0)
             => check_outputs(a) = "SomeOutputsZeroRate"
       /\ (~HasOutputs(a) /\ g.NO[a] > 0)
             => check_outputs(a) = "NoOutputsPositiveRate"
       /\ RatesMatchPorts(a)
             => check_inputs(a) = "Ok" /\ check_outputs(a) = "Ok"
  /\ (\E a \in Actors : ~RatesMatchPorts(a)) =>
       \E a \in Actors :
         /\ ~RatesMatchPorts(a)
         /\ check.who = {a}
         /\ check.err \in {check_inputs(a), check_outputs(a)} \ {"Ok"}

\* C12 witness: the line with zero rates on its ports has run to the end; its
\* source is rejected for SomeOutputsZeroRate, its sink fails the check of
\* its inputs.
C12_Witness ==
  /\ g = ZeroRates(NStep)
  /\ AllDropped
  /\ check = [err |-> "SomeOutputsZeroRate", who |-> {1}]
  /\ check_inputs(2) = "SomeInputsZeroRate"

----------------------------------------------------------------------------
\* The repeat count of the loop of transform a is the exact ratio of its
\* rates, not a truncated quotient.
ExactRounds(a) ==
  IF Decimation(a) THEN DecimationRounds(a) * g.NI[a] = g.NO[a]
                   ELSE UpsamplingRounds(a) * g.NO[a] = g.NI[a]

\* C13 (as claimed): no running actor ever executes its loop with a
\* truncated NO/NI or NI/NO repeat count: a transform that has gone through
\* a collect of its loop has rates that divide evenly.
C13_NoTruncatedLoop ==
  \A a \in Transforms :
    (actor[a].phase = "run" /\ actor[a].reads # <<>>) => ExactRounds(a)

----------------------------------------------------------------------------
\* Actor a has gone through a collect or a distribute of its normal loop.
InLoop(a) ==
  /\ actor[a].phase = "run"
  /\ actor[a].reads # <<>> \/ actor[a].distributes.run > 0

----------------------------------------------------------------------------
\* The task of actor a has left its loop.
Exited(a) == actor[a].pc \in {"returned", "dropped"}

\* C16: the loop of an initiator.  Every tick calls update and then drives
\* every output once: while the task waits in the sends of tick n + 1 there
\* were n + 1 updates and n + 1 writes per output, and every channel got one
\* envelope per completed tick.  The loop exits the first time the write
\* yields None (Disconnected, after n_step ticks and one more update) or a
\* send reports that its receiver is gone (DropSend, in the tick of the
\* failed send), and for no other reason.
C16_InitiatorLoop ==
  \A a \in Initiators :
    LET s == actor[a]
        n == s.distributes.run
    IN /\ s.updates = n + 1
       /\ s.pc = "send" =>
            \A o \in DOMAIN g.outputs[a] :
              /\ Len(s.written[o]) = n + 1
              /\ \A c \in Tx(a, o) :
                   /\ Len(hist.sent[c]) = n + (IF s.tx[c] = "ok" THEN 1 ELSE 0)
                   /\ IsPrefix(hist.sent[c], s.written[o])
       /\ Exited(a) =>
            \/ /\ s.result = "Disconnected"
               /\ n = g.n_step[a]
               /\ \A o \in DOMAIN g.outputs[a] : Len(s.written[o]) = n
               /\ \A c \in Senders(a) : ~hist.failed[c]
            \/ /\ s.result = "DropSend"
               /\ \A o \in DOMAIN g.outputs[a] : Len(s.written[o]) = n + 1
               /\ \E c \in Senders(a) : hist.failed[c]
       /\ \A c \in Senders(a) :
            hist.failed[c] =>
              \/ s.pc = "send" /\ s.tx[c] = "err"
              \/ s.result = "DropSend"

\* C16 witness: of the two sources, the second has left its loop on None
\* after n_step ticks, and the first on a failed send to the sink that the
\* second source's end had stopped.
C16_Witness ==
  /\ g = TwoSources(NStep)
  /\ actor[2].result = "Disconnected"
  /\ actor[2].distributes.run = g.n_step[2]
  /\ actor[2].updates = g.n_step[2] + 1
  /\ actor[1].result = "DropSend"
  /\ actor[1].distributes.run > 0

----------------------------------------------------------------------------
\* The actors built by Terminator: inputs and no outputs.
Terminators == {a \in Actors : HasInputs(a) /\ ~HasOutputs(a)}

RECURSIVE Flatten(_)
\* The concatenation of the sequences of a sequence.
Flatten(ss) == IF ss = <<>> THEN <<>> ELSE Head(ss) \o Flatten(Tail(ss))

\* C17: the loop of a terminator.  Every tick awaits all inputs, passes the
\* envelope of each input to the client and then calls update once: tick j
\* read the j-th envelope received on every input, and there are as many
\* updates as ticks.  The loop exits the first time an input reports
\* DropRecv, and for no other reason; the envelopes that other inputs
\* delivered in that tick are neither read nor followed by an update.
C17_TerminatorLoop ==
  \A a \in Terminators :
    LET s == actor[a]
        n == Len(s.reads)
        I == DOMAIN g.inputs[a]
    IN /\ s.updates = n
       /\ g.kind[a] = "Logging" => s.client.log = Flatten(s.reads)
       /\ \A i \in I :
            LET m == Len(hist.recvd[g.inputs[a][i]])
            IN /\ s.pc = "collect" =>
                    m = n + (IF s.rx[i].st = "ok" THEN 1 ELSE 0)
               /\ Exited(a) => m \in {n, n + 1}
       /\ Exited(a) <=> s.result = "DropRecv"
       /\ Exited(a) =>
            \E i \in I :
              /\ Len(hist.recvd[g.inputs[a][i]]) = n
              /\ channel[g.inputs[a][i]].queue = <<>>
              /\ ~channel[g.inputs[a][i]].sender
       /\ (\E i \in I : s.rx[i].st = "err") => s.pc = "collect"
       /\ \A j \in 1..n : \A i \in I :
            /\ DOMAIN s.reads[j] = I
            /\ j <= Len(hist.recvd[g.inputs[a][i]])
            /\ s.reads[j][i] = hist.recvd[g.inputs[a][i]][j]

\* C17 witness: the sink with two inputs has left its loop on the DropRecv of
\* its second input in a tick in which its first input had delivered an
\* envelope: that envelope was received and never read.
C17_Witness ==
  /\ g = TwoSources(NStep)
  /\ actor[3].result = "DropRecv"
  /\ Len(actor[3].reads) = g.n_step[2]
  /\ Len(hist.recvd[g.inputs[3][1]]) = g.n_step[2] + 1

----------------------------------------------------------------------------
\* The write of initiator a has returned None: every one of its n_step
\* envelopes went out and the task has left its loop.
WriteReturnedNone(a) ==
  /\ a \in Initiators
  /\ Exited(a)
  /\ actor[a].distributes.run = g.n_step[a]

----------------------------------------------------------------------------
\* The send of actor a on channel c is awaited.
SendPending(a, c) == actor[a].pc = "send" /\ actor[a].tx[c] = "pending"

\* A bounded channel that holds as many envelopes as its capacity.
Full(c) == g.capacity[c] # USIZE_MAX /\ Len(channel[c].queue) >= g.capacity[c]

\* A send on a full bounded channel with a live receiver stays suspended,
\* and completes as soon as the channel has room.
SendSuspends ==
  \A a \in Actors : \A c \in Senders(a) :
    (SendPending(a, c) /\ channel[c].receiver) =>
       /\ ~CanSendErr(State, a, c)
       /\ CanSendOk(State, a, c) <=> ~Full(c)

\* C19 (as claimed): a send on a full bounded channel suspends until a
\* consumer takes an envelope, and a send on a channel whose receiver was
\* dropped fails with Disconnected.
C19_SendFailsDisconnected ==
  /\ SendSuspends
  /\ \A a \in Actors : \A c \in Senders(a) :
       (hist.failed[c] /\ Exited(a)) => actor[a].result = "Disconnected"

\* C19 (amended): a send on a full bounded channel suspends until a consumer
\* takes an envelope, and a send on a channel whose receiver was dropped
\* fails with DropSend instead of suspending forever: the failure can happen
\* as soon as the receiver is gone, whatever the channel holds, and the task
\* whose send failed returns DropSend.
C19_SendFailsDropSend ==
  /\ SendSuspends
  /\ \A a \in Actors : \A c \in Senders(a) :
       /\ (SendPending(a, c) /\ ~channel[c].receiver) =>
             CanSendErr(State, a, c) /\ ~CanSendOk(State, a, c)
       /\ hist.failed[c] =>
             /\ ~channel[c].receiver
             /\ \/ actor[a].pc = "send" /\ actor[a].tx[c] = "err"
                \/ actor[a].result = "DropSend"

\* C19 witness: the first source's send to the two-input sink, dropped after
\* the second source ended, has failed and the source has returned DropSend,
\* after sends that went through the channel of capacity 1.
C19_Witness ==
  /\ g = TwoSources(NStep)
  /\ hist.failed[1]
  /\ actor[1].result = "DropSend"
  /\ Len(hist.sent[1]) > 1

----------------------------------------------------------------------------
\* Channel c is a 1:1 link: the only channel of an initiator, and the only
\* input of a terminator.
OneToOne(c) ==
  /\ c \in Attached
  /\ Producer(c) \in Initiators
  /\ Senders(Producer(c)) = {c}
  /\ Consumer(c) \in Terminators
  /\ g.inputs[Consumer(c)] = <<c>>

\* C20: no envelope is lost at shutdown on a 1:1 link.  The logger never
\* reads anything but the envelopes written by the source, in their order,
\* and when it has observed DropRecv it has read all N = n_step of them, the
\* j-th written being the j-th of its log.
C20_NoEnvelopeLost ==
  \A c \in Channels :
    OneToOne(c) =>
      LET p == Producer(c)
          q == Consumer(c)
          w == actor[p].written[OutputOf(c)]
          l == actor[q].client.log
      IN /\ IsPrefix(l, w)
         /\ Len(w) <= g.n_step[p]
         /\ \A j \in 1..Len(w) : w[j] = j
         /\ Exited(q) =>
              /\ actor[q].result = "DropRecv"
              /\ Exited(p)
              /\ l = w
              /\ Len(l) = g.n_step[p]
              /\ Len(actor[q].reads) = g.n_step[p]

\* C20 witness: the source of the line has emitted NStep envelopes and
\* ended, and the logger has left its loop on DropRecv with the NStep
\* envelopes in its log.
C20_Witness ==
  /\ g = Line(NStep)
  /\ actor[1].result = "Disconnected"
  /\ actor[2].result = "DropRecv"
  /\ actor[2].client.log = [j \in 1..NStep |-> j]

----------------------------------------------------------------------------
(* The scenarios of the rate transitions, checked on their own graphs      *)

\* Signal (rate 1) -> Sampler<NI=1,NO=10> -> Logging (rate 10), the source
\* emitting 100 samples.
SampledSignal ==
  [ name     |-> "sampled-signal",
    kind     |-> <<"Signal", "Sampler", "Logging">>,
    NI       |-> <<0, 1, 10>>,
    NO       |-> <<1, 10, 0>>,
    n_step   |-> <<100, 0, 0>>,
    inputs   |-> << <<>>, <<1>>, <<2>> >>,
    outputs  |-> << <<Output(<<1>>, FALSE)>>, <<Output(<<2>>, FALSE)>>, <<>> >>,
    capacity |-> <<DefaultCapacity, DefaultCapacity>> ]

\* examples/simple-feedback.rs with a constant source of value 1 over 10
\* ticks and Integrator::new(0.5, 1), its output bootstrapped with 0.
Halving ==
  [ name     |-> "halving",
    kind     |-> <<"Constant", "Compensator", "IntegratorHalf", "Logging">>,
    NI       |-> <<0, 1, 1, 1>>,
    NO       |-> <<1, 1, 1, 0>>,
    n_step   |-> <<10, 0, 0, 0>>,
    inputs   |-> << <<>>, <<1, 3>>, <<2>>, <<4>> >>,
    outputs  |-> << <<Output(<<1>>, FALSE)>>,
                    <<Output(<<2>>, FALSE), Output(<<4>>, FALSE)>>,
                    <<Output(<<3>>, TRUE)>>,
                    <<>> >>,
    capacity |-> <<DefaultCapacity, DefaultCapacity, DefaultCapacity,
                   DefaultCapacity>> ]

ScenarioGraphsOf(k) ==
  { Decimate(k), Upsample(k), Dangling(k), Unbounded(k), FanOut(k) }

ScenarioGraphs ==
  UNION {ScenarioGraphsOf(k) : k \in 0..NStep} \cup {SampledSignal, Halving}

ScenarioInit == Starts(ScenarioGraphs)

ScenarioSpec == ScenarioInit /\ [][Next]_vars

RECURSIVE Hold(_, _)
\* The sequence s with every element repeated r times: zero-order hold.
Hold(s, r) ==
  IF s = <<>> THEN <<>>
  ELSE [j \in 1..r |-> Head(s)] \o Hold(Tail(s), r)

\* Every r-th element of the sequence s: the last of each batch of r.
EveryNth(s, r) == [j \in 1..(Len(s) \div r) |-> s[j * r]]

\* The sample-and-hold transforms between an input and an output that is
\* not bootstrapped.
Samplers ==
  {a \in Transforms : /\ g.kind[a] = "Sampler"
                      /\ Len(g.inputs[a]) = 1
                      /\ \A c \in Senders(a) : ~Flagged(c)}

\* C21: upsampling with the sample-and-hold client.  Every envelope the
\* sampler collects is sent NI/NO times on each of its channels, in order:
\* what it has sent is a prefix of its input held NI/NO times, and when the
\* run is over the consumer has received exactly the source's sequence with
\* every envelope repeated NI/NO times.
C21_UpsamplingHolds ==
  \A a \in Samplers :
    g.NI[a] > g.NO[a] =>
      LET cin == g.inputs[a][1]
          r   == g.NI[a] \div g.NO[a]
      IN \A c \in Senders(a) :
           /\ IsPrefix(hist.sent[c], Hold(hist.recvd[cin], r))
           /\ Len(hist.sent[c]) >= r * (Len(hist.recvd[cin]) - 1)
           /\ AllDropped =>
                /\ hist.recvd[c] = Hold(hist.sent[cin], r)
                /\ actor[a].result = "DropRecv"

\* C21 witness: the source has emitted 1, 2, 3 and the run is over; the
\* logger after the upsampler by 2 holds 1, 1, 2, 2, 3, 3.
C21_Witness ==
  /\ g = Upsample(3)
  /\ AllDropped
  /\ actor[1].written[1] = <<1, 2, 3>>
  /\ actor[3].client.log = <<1, 1, 2, 2, 3, 3>>

\* C22: decimation with the sample-and-hold client.  The sampler sends one
\* envelope per batch of NO/NI collected, the last of the batch: when the
\* run is over the consumer has received exactly every (NO/NI)-th envelope
\* of the source's sequence.
C22_DecimationKeepsLast ==
  \A a \in Samplers :
    g.NO[a] > g.NI[a] =>
      LET cin == g.inputs[a][1]
          r   == g.NO[a] \div g.NI[a]
      IN \A c \in Senders(a) :
           /\ IsPrefix(hist.sent[c], EveryNth(hist.recvd[cin], r))
           /\ AllDropped =>
                /\ hist.recvd[c] = EveryNth(hist.sent[cin], r)
                /\ actor[a].result = "DropRecv"

\* C22 witness: the source has emitted 1, 2, 3, 4 and the run is over; the
\* logger after the decimator by 2 holds 2, 4.
C22_Witness ==
  /\ g = Decimate(4)
  /\ AllDropped
  /\ actor[1].written[1] = <<1, 2, 3, 4>>
  /\ actor[3].client.log = <<2, 4>>

----------------------------------------------------------------------------
\* The source sample of index i, counted from 0: the Signal client writes
\* i + 1 at step i.
Sample(i) == i + 1

\* C23 (as claimed): source -> rate-10 decimator -> logger over 100 ticks.
\* At the end the logger has 10 entries, the k-th (k in 0..9) being the
\* source sample of index 10k.
C23_FirstOfBatch ==
  (g = SampledSignal /\ AllDropped) =>
     LET l == actor[3].client.log
     IN /\ Len(l) = 10
        /\ \A k \in 0..9 : l[k + 1] = Sample(10 * k)

\* C23 (amended): at the end the logger has 10 entries, the k-th (k in 0..9)
\* being the source sample of index 10k + 9, the last of its batch of 10.
C23_LastOfBatch ==
  (g = SampledSignal /\ AllDropped) =>
     LET l == actor[3].client.log
     IN /\ Len(l) = 10
        /\ \A k \in 0..9 : l[k + 1] = Sample(10 * k + 9)

\* C23 witness: the run over 100 source ticks is over, the decimator has
\* read 100 envelopes and the logger holds 10.
C23_Witness ==
  /\ g = SampledSignal
  /\ AllDropped
  /\ actor[1].distributes.run = 100
  /\ Len(actor[2].reads) = 100
  /\ Len(actor[3].client.log) = 10

----------------------------------------------------------------------------
\* The compensator outputs of the halving loop in fixed point: 1, 1/2, 1/4,
\* ... as 2^10, 2^9, 2^8, ...
Halves == [j \in 1..10 |-> 2 ^ (11 - j)]

----------------------------------------------------------------------------
(* Building a network: add_output()...build().into_input(..)               *)

MaxRate == 2

MaxChannels == 2

\* Three actors declared Actor<C, NI, NO> with no port yet.
Unlinked ==
  { [ name     |-> "built",
      kind     |-> <<"Sampler", "Sampler", "Sampler">>,
      NI       |-> ni,
      NO       |-> no,
      n_step   |-> <<0, 0, 0>>,
      inputs   |-> << <<>>, <<>>, <<>> >>,
      outputs  |-> << <<>>, <<>>, <<>> >>,
      capacity |-> <<>> ] :
    ni \in [1..3 -> 1..MaxRate], no \in [1..3 -> 1..MaxRate] }

\* Every consumer accepted whatever the rates.
AnyRates(G, p, q) == q # p

\* impl IntoInputs<CI, N, NO> for (&Actor<CO, NI, NO>, Vec<Receiver>) with
\* into_input(self, actor: &mut Actor<CI, NO, N>): the call type-checks when
\* the inputs rate of the consumer q is the outputs rate of the producer p
\* (p, borrowed by the builder, cannot be the consumer).
IntoInputs(G, p, q) == q # p /\ G.NI[q] = G.NO[p]

\* add_output().[bootstrap()].[unbounded()].multiplex(n).build(): a new
\* output of p over n new channels, then one into_input per consumer of qs,
\* each popping the last receiver left; receivers left over are dropped.
add_output(G, p, n, boot, cap, qs) ==
  LET c0 == Len(G.capacity)
      rx(j) == c0 + n + 1 - j
      taken(q) == {j \in 1..Len(qs) : j <= n /\ qs[j] = q}
      RECURSIVE pops(_, _)
      pops(q, j) ==
        IF j > Len(qs) THEN <<>>
        ELSE (IF j \in taken(q) THEN <<rx(j)>> ELSE <<>>) \o pops(q, j + 1)
  IN [G EXCEPT
        !.outputs[p] = Append(@, Output([j \in 1..n |-> c0 + j], boot)),
        !.capacity   = @ \o [j \in 1..n |-> cap],
        !.inputs     = [q \in DOMAIN @ |-> @[q] \o pops(q, 1)]]

\* One output added to p and attached to the consumers qs: plain,
\* bootstrapped or unbounded.
Link ==
  \E p \in Actors, n \in 1..2 :
    \E qs \in UNION {[1..m -> Actors] : m \in 1..2} :
      /\ Len(g.capacity) + n <= MaxChannels
      /\ \A j \in DOMAIN qs : IntoInputs(g, p, qs[j])
      /\ \E opt \in {<<FALSE, DefaultCapacity>>, <<TRUE, DefaultCapacity>>,
                      <<FALSE, USIZE_MAX>>} :
           g' = add_output(g, p, n, opt[1], opt[2], qs)
      /\ UNCHANGED <<actor, channel, hist, handle>>

LinkInit ==
  /\ g \in Unlinked
  /\ actor = <<>>
  /\ channel = <<>>
  /\ hist = <<>>
  /\ handle = NoHandle

LinkSpec == LinkInit /\ [][Link]_vars

\* C25: every channel attached by into_input joins an output of rate NO to a
\* consumer whose inputs rate is that NO; no network with a mismatching link
\* is ever built.
C25_LinkRatesEqual ==
  \A c \in Attached : g.NI[Consumer(c)] = g.NO[Producer(c)]

\* C25 witness: a multiplexed output of rate 2 feeds two consumers of inputs
\* rate 2 in a network that also holds an actor of outputs rate 1.
C25_Witness ==
  /\ g.name = "built"
  /\ \E p \in Actors :
       /\ g.NO[p] = 2
       /\ \E o \in DOMAIN g.outputs[p] :
            /\ Len(g.outputs[p][o].tx) = 2
            /\ Range(g.outputs[p][o].tx) \subseteq Attached
            /\ \E c, d \in Range(g.outputs[p][o].tx) :
                 Consumer(c) # Consumer(d)
  /\ \E a \in Actors : g.NO[a] = 1

----------------------------------------------------------------------------
\* The envelopes sent on channel c that its consumer has not received.
Lag(c) == Len(hist.sent[c]) - Len(hist.recvd[c])

\* C26: a send on an unbounded() channel whose receiver is alive completes
\* at once however many envelopes the consumer has left in the queue; a send
\* that cannot complete is a send on a channel of the default capacity 1
\* that holds an envelope.
C26_UnboundedNeverBlocks ==
  \A a \in Actors : \A c \in Senders(a) :
    (SendPending(a, c) /\ channel[c].receiver) =>
       /\ g.capacity[c] = USIZE_MAX => CanSendOk(State, a, c)
       /\ ~CanSendOk(State, a, c) =>
            /\ g.capacity[c] = DefaultCapacity
            /\ Len(channel[c].queue) = DefaultCapacity

\* C26 witness: the source has sent all of its NStep envelopes on an
\* unbounded channel and returned while the consumer has received none.
C26_Witness ==
  /\ g = Unbounded(NStep)
  /\ Exited(1)
  /\ Lag(1) = NStep
  /\ Len(channel[1].queue) = NStep
  /\ Len(hist.recvd[1]) = 0

----------------------------------------------------------------------------
(* The integrated model of tests/zero_mount-m1-m2-tt.rs in small            *)

\* A source and the loop plant (1,1) -> decimator (1,R) -> upsampler (R,1)
\* -> plant; the plant output to the decimator (fem -> m1_hp_loadcells) and
\* the upsampler output (m1_segment -> fem) are flagged bootstrap, and a
\* second output of the plant feeds a rate-1 sink.
Integrated(k) == Loop(k, TRUE, FALSE, TRUE)

\* The initiator runs for a multiple of the ratio R of the decimator.
IntegratedGraphs ==
  {Integrated(k) : k \in {n \in 0..NStep : n % Integrated(n).NO[3] = 0}}

IntegratedInit == Starts(IntegratedGraphs)

IntegratedSpec == IntegratedInit /\ [][Next]_vars /\ WF_vars(Next)

\* Every task has returned and every sink fed by the plant holds one
\* envelope per tick of the initiator.
IntegratedDone ==
  /\ AllDropped
  /\ \A a \in Terminators : Len(actor[a].client.log) = g.n_step[1]

----------------------------------------------------------------------------
\* The send of a on channel c waits for room: the channel is full and its
\* receiver is alive.
Blocked(a, c) ==
  /\ SendPending(a, c)
  /\ ~CanSendOk(State, a, c)
  /\ ~CanSendErr(State, a, c)

\* C28: the distribute of an actor completes only when every channel of
\* every output has accepted the envelope.  While the task is in its sends a
\* channel holds all the envelopes written but the current one until its own
\* send completes; once the task has left the sends without a failure every
\* channel was sent everything written; and as long as one consumer has not
\* made room the completion of any other send leaves the task in the same
\* distribute, nothing new written.
C28_FanOutCompletesTogether ==
  \A a \in Actors : \A o \in DOMAIN g.outputs[a] :
    LET W == actor[a].written[o]
    IN \A c \in Tx(a, o) :
         /\ (actor[a].pc = "send" /\ actor[a].tx[c] \in {"pending", "err"})
              => Len(hist.sent[c]) = Len(W) - 1
         /\ (actor[a].pc = "send" /\ actor[a].tx[c] \in {"ok", "idle"})
              => Len(hist.sent[c]) = Len(W)
         /\ (actor[a].pc # "send" /\ actor[a].result # "DropSend")
              => Len(hist.sent[c]) = Len(W)
         /\ Blocked(a, c) =>
              \A d \in Senders(a) :
                CanSendOk(State, a, d) =>
                  LET t == send_ok(State, a, d).actor[a]
                  IN /\ t.pc = "send"
                     /\ t.tx[c] = "pending"
                     /\ t.written = actor[a].written
                     /\ t.updates = actor[a].updates

\* C28 witness: the first consumer of a multiplexed output has taken the
\* second envelope and waits for the third while the producer is still in
\* the sends of its second tick, the second consumer not having made room.
C28_Witness ==
  /\ g = FanOut(NStep)
  /\ Blocked(1, 2)
  /\ actor[1].tx[1] = "ok"
  /\ Len(actor[1].written[1]) = 2
  /\ Len(hist.recvd[1]) = 2
  /\ channel[1].queue = <<>>
  /\ Len(hist.recvd[2]) = 0
  /\ actor[1].updates = 2

----------------------------------------------------------------------------
\* The envelopes actor a has taken from its input i in the collect it is in.
Taken(a, i) ==
  IF actor[a].pc = "collect" /\ actor[a].rx[i].st = "ok" THEN 1 ELSE 0

\* C29: within one tick an actor takes exactly one envelope from each of its
\* inputs before a single update.  After n collects every input has given n
\* envelopes, and at most one more, the one of the collect under way (or of
\* the collect that failed on another input); the j-th collect returned the
\* j-th envelope of every input, in the order of the input list; and there
\* was one update per collect.
C29_OnePerInputPerTick ==
  \A a \in Actors :
    HasInputs(a) =>
      LET n == Len(actor[a].reads)
      IN /\ actor[a].updates = n
         /\ \A i \in DOMAIN g.inputs[a] :
              LET c == g.inputs[a][i]
              IN /\ Len(hist.recvd[c]) \in {n, n + 1}
                 /\ actor[a].result # "DropRecv" =>
                      Len(hist.recvd[c]) = n + Taken(a, i)
                 /\ \A j \in 1..n :
                      /\ Len(actor[a].reads[j]) = Len(g.inputs[a])
                      /\ j <= Len(hist.recvd[c])
                      /\ actor[a].reads[j][i] = hist.recvd[c][j]

\* C29 witness: in its third tick the compensator of the feedback loop has
\* the envelope of its first input and waits for the one of its second;
\* two collects went to the client, each with the source value first and
\* the integrator value second, and there were two updates.
C29_Witness ==
  /\ g = Halving
  /\ actor[2].pc = "collect"
  /\ actor[2].rx[1].st = "ok"
  /\ actor[2].rx[2].st = "pending"
  /\ Len(hist.recvd[1]) = 3
  /\ Len(hist.recvd[3]) = 2
  /\ actor[2].reads = <<<<1024, 0>>, <<1024, 512>>>>
  /\ actor[2].updates = 2

----------------------------------------------------------------------------
\* Actor a is suspended on a channel: in the recvs of a collect or in the
\* sends of a distribute.
Suspended(a) == actor[a].pc \in {"collect", "send"}

\* C30: the client mutex is never held while the task is suspended on a
\* channel: no guard is alive while the inputs are awaited or while the
\* sends of the outputs are awaited, every output having taken and released
\* the lock in its turn, and no task waits for the lock of its client.
C30_NoLockAcrossAwait ==
  \A a \in Actors :
    /\ Suspended(a) => ~actor[a].lock
    /\ actor[a].pc # "lock"

\* C30 witness: the compensator, whose two outputs have each called write
\* under the lock twice, waits for room on the channel of its second output
\* with the lock released.
C30_Witness ==
  /\ g = Halving
  /\ Blocked(2, 4)
  /\ ~actor[2].lock
  /\ Len(actor[2].written[1]) = 2
  /\ Len(actor[2].written[2]) = 2

----------------------------------------------------------------------------
(* The shutdown cascade at a transform                                     *)

\* The recvs of actor a that can resolve now, as operations.
RecvOps(a) == {o \in Ops(State) : o.a = a /\ o.op \in {"RecvOk", "RecvErr"}}

\* The task of a after operation o.
After(a, o) == apply(State, o).actor[a]

\* The collect of a has an input that reported DropRecv, or gets one with o.
CollectFails(a, o) ==
  \/ o.op = "RecvErr"
  \/ \E i \in DOMAIN g.inputs[a] : actor[a].rx[i].st = "err"

\* A transform whose collect ends on a failed input leaves its loop with
\* the result r.
CascadeExitsWith(r) ==
  /\ \A a \in Transforms : \A o \in RecvOps(a) :
       (CollectFails(a, o) /\ After(a, o).pc # "collect") =>
          /\ After(a, o).pc = "returned"
          /\ After(a, o).result = r
  /\ \A a \in Transforms :
       (Exited(a) /\ \A c \in Senders(a) : ~hist.failed[c]) =>
          actor[a].result = r

\* C31 (as claimed): a transform reached by the shutdown cascade exits its
\* loop returning Disconnected.
C31_TransformDisconnected == CascadeExitsWith("Disconnected")

\* C31 (amended): a transform reached by the shutdown cascade, one of its
\* inputs reporting DropRecv, exits its loop returning DropRecv.
C31_TransformDropRecv == CascadeExitsWith("DropRecv")

\* C31 witness: the source has ended on None (Disconnected) and the sampler
\* downstream of it has left its loop on the DropRecv of its input.
C31_Witness ==
  /\ g = Decimate(2)
  /\ actor[1].result = "Disconnected"
  /\ Exited(2)
  /\ actor[2].result = "DropRecv"
  /\ Len(hist.recvd[1]) = 2

----------------------------------------------------------------------------
\* Actor a has returned from run after a call of disconnect and its value
\* is still alive.
Disconnected(a) ==
  /\ actor[a].pc = "returned"
  /\ actor[a].result \in {"DropRecv", "Disconnected"}

\* C32 (as claimed): once collect has returned DropRecv or distribute was
\* called with None, every receiver attached to an output of the actor
\* observes end-of-stream as soon as its buffer is drained, the actor value
\* being still alive: a recv pending on a drained channel of the actor fails.
C32_DisconnectEndsStream ==
  \A a \in Actors : \A c \in Senders(a) \cap Attached :
    Disconnected(a) =>
      \A i \in DOMAIN g.inputs[Consumer(c)] :
        ( /\ g.inputs[Consumer(c)][i] = c
          /\ channel[c].queue = <<>>
          /\ actor[Consumer(c)].pc = "collect"
          /\ actor[Consumer(c)].rx[i].st = "pending" )
          => CanRecvErr(State, Consumer(c), i)

----------------------------------------------------------------------------
(* The output builder, step by step                                        *)

MaxFan == 2

\* ActorOutputBuilder::new(n): n channels of capacity 1, no bootstrap.
ActorOutputBuilder(n) ==
  [capacity |-> [j \in 1..n |-> DefaultCapacity], bootstrap |-> FALSE]

\* AddOuput::unbounded: capacity: vec![usize::MAX; n].
unbounded(b) == [b EXCEPT !.capacity = [j \in 1..Len(@) |-> USIZE_MAX]]

\* AddOuput::bootstrap: bootstrap: true.
bootstrap(b) == [b EXCEPT !.bootstrap = TRUE]

\* A multiplex that starts again from n channels of the default capacity.
multiplex_default(b, n) ==
  [b EXCEPT !.capacity = [j \in 1..n |-> DefaultCapacity]]

\* AddOuput::multiplex: capacity: vec![self.1.capacity[0]; n].
multiplex(b, n) == [b EXCEPT !.capacity = [j \in 1..n |-> @[1]]]

\* A build that assigns the new Output as the whole list of outputs.
build_replacing(G, p, b) ==
  LET c0 == Len(G.capacity)
      n  == Len(b.capacity)
      cs == [j \in 1..n |-> c0 + j]
  IN [ graph |-> [G EXCEPT !.outputs[p] = <<Output(cs, b.bootstrap)>>,
                           !.capacity   = @ \o b.capacity],
       rx    |-> cs ]

\* AddOuput::build: one channel per capacity, one new Output with all the
\* senders pushed on the outputs of p; the receivers go to the handle.
build(G, p, b) ==
  LET c0 == Len(G.capacity)
      n  == Len(b.capacity)
      cs == [j \in 1..n |-> c0 + j]
  IN [ graph |-> [G EXCEPT !.outputs[p] = Append(@, Output(cs, b.bootstrap)),
                           !.capacity   = @ \o b.capacity],
       rx    |-> cs ]

\* Actor::add_input: a new Input at the end of the inputs of q.
add_input(G, q, c) == [G EXCEPT !.inputs[q] = Append(@, c)]

\* An into_input that attaches the last receiver and leaves it in the handle.
into_input_peek(G, rx, q) ==
  IF rx # <<>>
    THEN [ graph |-> add_input(G, q, rx[Len(rx)]), rx |-> rx ]
    ELSE [ graph |-> G, rx |-> rx ]

\* An into_input that, on a handle left empty, attaches the newest channel
\* once more.
into_input_again(G, rx, q) ==
  IF rx # <<>>
    THEN [ graph |-> add_input(G, q, rx[Len(rx)]),
           rx    |-> SubSeq(rx, 1, Len(rx) - 1) ]
    ELSE [ graph |-> add_input(G, q, Len(G.capacity)), rx |-> rx ]

\* IntoInputs::into_input: if let Some(recv) = self.1.pop() { add_input }.
into_input(G, rx, q) ==
  IF rx # <<>>
    THEN [ graph |-> add_input(G, q, rx[Len(rx)]),
           rx    |-> SubSeq(rx, 1, Len(rx) - 1) ]
    ELSE [ graph |-> G, rx |-> rx ]

\* add_output(): the builder of a single channel, borrowed from p.
AddOutput(p) ==
  /\ handle.stage = "none"
  /\ handle' = [ stage |-> "builder", p |-> p,
                 capacity  |-> ActorOutputBuilder(1).capacity,
                 bootstrap |-> ActorOutputBuilder(1).bootstrap,
                 rx |-> <<>>, calls |-> 0 ]
  /\ UNCHANGED <<g, actor, channel, hist>>

\* The builder of the statement under way.
Builder == [capacity |-> handle.capacity, bootstrap |-> handle.bootstrap]

\* One of .unbounded(), .bootstrap(), .multiplex(n) on the builder.
Configure ==
  /\ handle.stage = "builder"
  /\ \E b \in {unbounded(Builder), bootstrap(Builder)}
            \cup {multiplex(Builder, n) : n \in 1..MaxFan} :
       handle' = [handle EXCEPT !.capacity = b.capacity,
                                !.bootstrap = b.bootstrap]
  /\ UNCHANGED <<g, actor, channel, hist>>

\* .build()
Build ==
  /\ handle.stage = "builder"
  /\ LET r == build(g, handle.p, Builder)
     IN /\ g' = r.graph
        /\ handle' = [handle EXCEPT !.stage = "handle", !.rx = r.rx]
  /\ UNCHANGED <<actor, channel, hist>>

\* .into_input(&mut q), at most once more than there are receivers.
IntoInput(q) ==
  /\ handle.stage = "handle"
  /\ handle.calls <= Len(handle.capacity)
  /\ IntoInputs(g, handle.p, q)
  /\ LET r == into_input(g, handle.rx, q)
     IN /\ g' = r.graph
        /\ handle' = [handle EXCEPT !.rx = r.rx, !.calls = @ + 1]
  /\ UNCHANGED <<actor, channel, hist>>

\* The end of the statement: the handle is dropped with the receivers left.
EndStatement ==
  /\ handle.stage = "handle"
  /\ handle' = [NoHandle EXCEPT !.stage = "done"]
  /\ UNCHANGED <<g, actor, channel, hist>>

\* Three actors of one rate with no port yet.
SameRate ==
  {G \in Unlinked : \A a \in DOMAIN G.kind :
                      G.NI[a] = G.NO[1] /\ G.NO[a] = G.NO[1]}

\* The networks before the statement: no port yet, or one output, plain or
\* bootstrapped and unbounded, already built from p to q.
Before ==
  LET pairs == {x \in (1..3) \X (1..3) : x[1] # x[2]}
  IN SameRate
     \cup {add_output(G, x[1], 1, FALSE, DefaultCapacity, <<x[2]>>) :
             G \in SameRate, x \in pairs}
     \cup {add_output(G, x[1], 1, TRUE, USIZE_MAX, <<x[2]>>) :
             G \in SameRate, x \in pairs}

\* One statement p.add_output()....build().into_input(..)...; on one of
\* the networks Before.
BuildInit ==
  /\ g \in Before
  /\ actor = <<>>
  /\ channel = <<>>
  /\ hist = <<>>
  /\ handle = NoHandle

BuildNext ==
  \/ \E p \in Actors : AddOutput(p)
  \/ Configure
  \/ Build
  \/ \E q \in Actors : IntoInput(q)
  \/ EndStatement

BuildSpec == BuildInit /\ [][BuildNext]_vars

----------------------------------------------------------------------------
\* C33: build() on a builder with n capacities creates exactly n channels,
\* of these capacities; pushes exactly one new Output on the producer, with
\* the n senders and the bootstrap flag of the builder; returns the n
\* matching receivers; and leaves the inputs of every actor, the outputs the
\* producer already had, the other actors and the older channels as they
\* were.  The builder of add_output() has one capacity 1 and no bootstrap.
C33_BuildFrame ==
  /\ ActorOutputBuilder(1) = [capacity |-> <<1>>, bootstrap |-> FALSE]
  /\ handle.stage = "builder" =>
       LET p  == handle.p
           n  == Len(Builder.capacity)
           c0 == Len(g.capacity)
           r  == build(g, p, Builder)
           G  == r.graph
           k  == Len(g.outputs[p])
       IN /\ Len(G.capacity) = c0 + n
          /\ \A j \in 1..n : G.capacity[c0 + j] = Builder.capacity[j]
          /\ \A c \in 1..c0 : G.capacity[c] = g.capacity[c]
          /\ Len(r.rx) = n
          /\ Range(r.rx) = (c0 + 1)..(c0 + n)
          /\ Len(G.outputs[p]) = k + 1
          /\ G.outputs[p][k + 1] = Output(r.rx, Builder.bootstrap)
          /\ \A o \in 1..k : G.outputs[p][o] = g.outputs[p][o]
          /\ \A a \in Actors \ {p} : G.outputs[a] = g.outputs[a]
          /\ G.inputs = g.inputs
          /\ G.kind = g.kind /\ G.NI = g.NI /\ G.NO = g.NO
  /\ (handle.stage = "handle" /\ handle.calls = 0) =>
       LET os == g.outputs[handle.p]
       IN /\ os # <<>>
          /\ os[Len(os)] = Output(handle.rx, handle.bootstrap)
          /\ Len(handle.rx) = Len(handle.capacity)
          /\ Range(handle.rx) \cap Attached = {}

\* C33 witness: build() has just added a plain output of two channels to a
\* producer that already had a bootstrapped, unbounded output, which is
\* still its first output; the handle holds the two new receivers.
C33_Witness ==
  /\ handle.stage = "handle"
  /\ handle.calls = 0
  /\ handle.rx = <<2, 3>>
  /\ g.capacity = <<USIZE_MAX, DefaultCapacity, DefaultCapacity>>
  /\ g.outputs[handle.p] = <<Output(<<1>>, TRUE), Output(<<2, 3>>, FALSE)>>
  /\ Attached = {1}

----------------------------------------------------------------------------
\* The inputs, over all actors, that hold the receiver of channel c.
InputsOf(c) ==
  {x \in Actors \X Channels :
     x[2] \in DOMAIN g.inputs[x[1]] /\ g.inputs[x[1]][x[2]] = c}

\* C34: an into_input on a handle that is not empty moves exactly one
\* receiver, the last, from the handle to the consumer: the handle is one
\* shorter, the input list of the consumer one longer, and the producer,
\* the other actors and the channels are unchanged.  No receiver is in the
\* handle and attached, none is attached twice, and after as many
\* into_input as there are receivers every receiver of the output is
\* attached to exactly one consumer.
C34_IntoInputMovesOne ==
  /\ handle.stage = "handle" =>
       \A q \in Actors :
         (IntoInputs(g, handle.p, q) /\ handle.rx # <<>>) =>
           LET n == Len(handle.rx)
               r == into_input(g, handle.rx, q)
           IN /\ r.rx = SubSeq(handle.rx, 1, n - 1)
              /\ r.graph.inputs[q] = Append(g.inputs[q], handle.rx[n])
              /\ \A a \in Actors \ {q} : r.graph.inputs[a] = g.inputs[a]
              /\ r.graph.outputs = g.outputs
              /\ r.graph.capacity = g.capacity
  /\ \A c \in Channels :
       /\ Cardinality(InputsOf(c)) <= 1
       /\ c \in Range(handle.rx) => InputsOf(c) = {}
  /\ (handle.stage = "handle" /\ handle.calls = Len(handle.capacity)) =>
       LET os == g.outputs[handle.p]
       IN /\ handle.rx = <<>>
          /\ \A c \in Range(os[Len(os)].tx) : Cardinality(InputsOf(c)) = 1

\* C34 witness: the two receivers of a multiplexed output went to two
\* different consumers, the last receiver first, and the handle is empty.
C34_Witness ==
  /\ handle.stage = "handle"
  /\ handle.calls = 2
  /\ handle.rx = <<>>
  /\ g.capacity = <<DefaultCapacity, DefaultCapacity>>
  /\ \E q1, q2 \in Actors :
       /\ q1 # q2
       /\ g.inputs[q1] = <<2>>
       /\ g.inputs[q2] = <<1>>

----------------------------------------------------------------------------
\* The channels that build() makes of a builder on the producer p.
Made(b, p) ==
  LET r == build(g, p, b)
  IN [j \in 1..Len(r.rx) |-> r.graph.capacity[r.rx[j]]]

\* C35: unbounded() and multiplex(n) commute: on the builder of add_output()
\* and on every builder of a statement, multiplex(n) then unbounded() and
\* unbounded() then multiplex(n) give the same builder, of n capacities that
\* are all usize::MAX, with the bootstrap flag it had, and build() makes of
\* it n channels that are all unbounded.
C35_UnboundedMultiplexCommute ==
  \A b \in {ActorOutputBuilder(1)}
             \cup (IF handle.stage = "builder" THEN {Builder} ELSE {}) :
    \A n \in 1..MaxFan :
      LET mu == unbounded(multiplex(b, n))
          um == multiplex(unbounded(b), n)
      IN /\ mu = um
         /\ Len(mu.capacity) = n /\ Len(um.capacity) = n
         /\ \A j \in 1..n : mu.capacity[j] = USIZE_MAX
         /\ \A j \in 1..n : um.capacity[j] = USIZE_MAX
         /\ mu.bootstrap = b.bootstrap /\ um.bootstrap = b.bootstrap
         /\ unbounded(b).bootstrap = b.bootstrap
         /\ multiplex(b, n).bootstrap = b.bootstrap
         /\ \A p \in Actors :
              /\ Made(mu, p) = [j \in 1..n |-> USIZE_MAX]
              /\ Made(um, p) = [j \in 1..n |-> USIZE_MAX]

\* C35 witness: a bootstrapped builder that was made unbounded and
\* multiplexed by two has been built: two unbounded channels, both in the
\* handle, on an output that is still bootstrapped.
C35_Witness ==
  /\ handle.stage = "handle"
  /\ handle.calls = 0
  /\ handle.capacity = <<USIZE_MAX, USIZE_MAX>>
  /\ handle.bootstrap
  /\ handle.rx = <<1, 2>>
  /\ g.capacity = <<USIZE_MAX, USIZE_MAX>>
  /\ g.outputs[handle.p] = <<Output(<<1, 2>>, TRUE)>>

----------------------------------------------------------------------------
(* Outputs with fewer into_input than multiplexed channels, built and run  *)

\* A source and two sinks of rate 1, no port yet.
Bare(k) ==
  [ name     |-> "partial",
    kind     |-> <<"Signal", "Logging", "Logging">>,
    NI       |-> <<0, 1, 1>>,
    NO       |-> <<1, 0, 0>>,
    n_step   |-> <<k, 0, 0>>,
    inputs   |-> << <<>>, <<>>, <<>> >>,
    outputs  |-> << <<>>, <<>>, <<>> >>,
    capacity |-> <<>> ]

RECURSIVE into_inputs(_, _, _)
\* handle.into_input(&mut q1).into_input(&mut q2)...; at the end of the
\* statement: the handle, and the receivers it still holds, are dropped.
into_inputs(G, rx, qs) ==
  IF qs = <<>> THEN G
  ELSE LET r == into_input(G, rx, Head(qs))
       IN into_inputs(r.graph, r.rx, Tail(qs))

\* source.add_output().build().into_input(&mut sink 3); then
\* source.add_output()[.bootstrap()].multiplex(n).build() followed by m < n
\* into_input (at most two), to sink 2 and then to sink 3.
Partial(k, boot, n, m) ==
  LET s1 == build(Bare(k), 1, ActorOutputBuilder(1))
      G1 == into_inputs(s1.graph, s1.rx, <<3>>)
      b0 == multiplex(ActorOutputBuilder(1), n)
      b  == IF boot THEN bootstrap(b0) ELSE b0
      s2 == build(G1, 1, b)
  IN into_inputs(s2.graph, s2.rx, [j \in 1..m |-> 1 + j])

PartialGraphs ==
  { Partial(k, boot, x[1], x[2]) :
      k \in 0..NStep, boot \in BOOLEAN,
      x \in {y \in (2..MaxFan) \X (0..2) : y[2] < y[1]} }

PartialSpec == Starts(PartialGraphs) /\ [][Next]_vars

\* The channels of output o of actor a whose receiver no actor took.
Unattached(a, o) == Range(g.outputs[a][o].tx) \ Attached

\* C36: an output built with more channels than receivers were attached
\* has the receivers left over dropped before the run.  Nothing is ever
\* sent on such a channel; the send of the producer on it can only fail;
\* the producer writes the output at most once and completes no distribute
\* in the phase that first drives it, nor later; while it is in that send
\* the consumers attached to the output have not exited; and when the task
\* has ended after a write it returned DropSend, the attached consumers of
\* the output having each been sent that one envelope.
C36_PartialAttachFails ==
  \A a \in Actors : \A o \in DOMAIN g.outputs[a] :
    Unattached(a, o) # {} =>
      LET s     == actor[a]
          first == IF g.outputs[a][o].bootstrap THEN "bootstrap" ELSE "run"
          live  == Range(g.outputs[a][o].tx) \cap Attached
      IN /\ \A c \in Unattached(a, o) :
              /\ ~channel[c].receiver
              /\ hist.sent[c] = <<>>
              /\ SendPending(a, c) =>
                   CanSendErr(State, a, c) /\ ~CanSendOk(State, a, c)
         /\ Len(s.written[o]) <= 1
         /\ s.distributes[first] = 0
         /\ s.distributes.run = 0
         /\ s.pc \in {"send", "returned", "dropped"}
         /\ s.pc = "send" =>
              /\ s.phase = first
              /\ \A c \in live : ~Exited(Consumer(c))
         /\ Exited(a) =>
              \/ /\ s.result = "Disconnected"
                 /\ s.written[o] = <<>>
              \/ /\ s.result = "DropSend"
                 /\ s.phase = first
                 /\ Len(s.written[o]) = 1
                 /\ \E c \in Unattached(a, o) : hist.failed[c]
                 /\ \A c \in live : hist.sent[c] = s.written[o]

\* C36 witness: multiplex(2) with one into_input; the source has returned
\* DropSend from its first tick, no distribute completed, while the sink
\* attached to the output holds the one envelope it was sent and waits for
\* the next.
C36_Witness ==
  /\ g = Partial(2, FALSE, 2, 1)
  /\ actor[1].pc = "returned"
  /\ actor[1].result = "DropSend"
  /\ actor[1].updates = 1
  /\ actor[1].distributes = [bootstrap |-> 0, run |-> 0]
  /\ hist.failed[2]
  /\ hist.recvd[3] = <<1>>
  /\ actor[2].pc = "collect"
  /\ actor[2].updates = 1

----------------------------------------------------------------------------
(* A fan-out that loses one of its consumers during the run                *)

\* The networks of two initiators, run by a scheduler that lets every task
\* that is ready make progress.
FanOutLossSpec ==
  /\ Starts({TwoSources(k) : k \in 0..NStep})
  /\ [][Next]_vars
  /\ WF_vars(Next)

\* The channels of output o of actor a on which a send has failed.
Lost(a, o) == {c \in Range(g.outputs[a][o].tx) : hist.failed[c]}

\* What holds of an output o of a once a send has failed on one of its
\* channels and not on the others.
PartialFailure(a, o) ==
  LET s    == actor[a]
      w    == s.written[o]
      live == Range(g.outputs[a][o].tx) \ Lost(a, o)
  IN /\ \A c \in Lost(a, o) : hist.sent[c] = SubSeq(w, 1, Len(w) - 1)
     /\ \A d \in live :
          (SendPending(a, d) /\ channel[d].receiver /\ HasRoom(channel, d))
            => /\ CanSendOk(State, a, d)
               /\ send_ok(State, a, d).hist.sent[d] = w
               /\ send_ok(State, a, d).channel[d].queue
                    = Append(channel[d].queue, w[Len(w)])
     /\ (\E d \in live : SendPending(a, d)) => s.result = "running"
     /\ Exited(a) =>
          /\ s.result = "DropSend"
          /\ \A d \in live : hist.sent[d] = w
     /\ s.pc = "dropped" =>
          \A d \in live \cap Attached :
            LET q == Consumer(d)
            IN /\ ~channel[d].sender
               /\ Exited(q) => actor[q].result = "DropRecv"
               /\ (Exited(q) /\ Len(g.inputs[q]) = 1)
                    => hist.recvd[d] = w
               /\ \A i \in DOMAIN g.inputs[q] :
                    ( /\ g.inputs[q][i] = d
                      /\ actor[q].pc = "collect"
                      /\ actor[q].rx[i].st = "pending"
                      /\ channel[d].queue = <<>> )
                      => CanRecvErr(State, q, i)

\* The first source has returned DropSend and the one-input sink has
\* received all that was written, the envelope of the failed send included,
\* and has returned DropRecv.
FanOutLossDone ==
  /\ actor[1].result = "DropSend"
  /\ Exited(1)
  /\ Exited(4)
  /\ actor[4].result = "DropRecv"
  /\ hist.recvd[2] = actor[1].written[1]

\* C37: when the send on one channel of a multiplexed output has failed
\* because its consumer exited, the sends to the other consumers are not
\* given up: each completes as soon as its consumer is alive and has room,
\* and delivers the envelope; the producer is still running until they all
\* have resolved, then returns DropSend, every live consumer having been
\* sent all that was written and the lost one all but the last; once the
\* producer is dropped the other consumers find their channel closed, and
\* they do end with DropRecv after the last envelope.
C37_PartialFanOutFailure ==
  /\ [](\A a \in Actors : \A o \in DOMAIN g.outputs[a] :
          Lost(a, o) # {} => PartialFailure(a, o))
  /\ (hist.failed[1] ~> []FanOutLossDone)

\* C37 witness: the two-input sink exited when the second source ended; the
\* first source went on, its send to that sink failed, the other sink was
\* still sent the envelope and received it before it saw the end of the
\* stream.
C37_Witness ==
  /\ g = TwoSources(1)
  /\ actor[3].result = "DropRecv"
  /\ hist.failed[1]
  /\ ~hist.failed[2]
  /\ actor[1].result = "DropSend"
  /\ Len(actor[1].written[1]) = 2
  /\ hist.sent[1] = <<1>>
  /\ hist.sent[2] = <<1, 2>>
  /\ hist.recvd[2] = <<1, 2>>
  /\ actor[4].result = "DropRecv"

----------------------------------------------------------------------------
\* The envelopes of input i that the client of actor a was given.
Given(a, i) == [j \in 1..Len(actor[a].reads) |-> actor[a].reads[j][i]]

\* The envelopes actor a took from input i that its client was not given.
Discarded(a, i) ==
  SubSeq(hist.recvd[g.inputs[a][i]],
         Len(actor[a].reads) + 1, Len(hist.recvd[g.inputs[a][i]]))

\* C38: the client of an actor has been given as many envelopes of every
\* input as there were updates, the first ones the input delivered.  When
\* the last recv of a collect resolves and an input of that collect has
\* reported DropRecv, the task returns DropRecv with its client, the
\* envelopes given to it and the count of its updates as they were; the
\* envelopes that the other inputs delivered in that collect have left
\* their channels and are not given to the client: one for every input
\* that delivered, none for an input that failed.
C38_FailedCollectDiscards ==
  \A a \in Actors :
    HasInputs(a) =>
      LET s == actor[a]
          I == DOMAIN g.inputs[a]
      IN /\ \A i \in I :
              /\ Len(Given(a, i)) = s.updates
              /\ IsPrefix(Given(a, i), hist.recvd[g.inputs[a][i]])
              /\ Len(Discarded(a, i)) <= 1
         /\ g.kind[a] = "Logging" =>
              Len(s.client.log) = Len(g.inputs[a]) * s.updates
         /\ \A o \in RecvOps(a) :
              (CollectFails(a, o) /\ After(a, o).pc # "collect") =>
                 /\ After(a, o).result = "DropRecv"
                 /\ After(a, o).client = s.client
                 /\ After(a, o).reads = s.reads
                 /\ After(a, o).updates = s.updates
                 /\ o.op = "RecvOk" =>
                      /\ apply(State, o).channel[g.inputs[a][o.p]].queue
                           = Tail(channel[g.inputs[a][o.p]].queue)
                      /\ apply(State, o).hist.recvd[g.inputs[a][o.p]]
                           = Append(hist.recvd[g.inputs[a][o.p]],
                                    Head(channel[g.inputs[a][o.p]].queue))
         /\ s.result = "DropRecv" =>
              /\ \A i \in I :
                   Len(hist.recvd[g.inputs[a][i]]) = s.updates + 1
                     => Discarded(a, i)
                          = <<hist.recvd[g.inputs[a][i]][s.updates + 1]>>
              /\ \E i \in I : Discarded(a, i) = <<>>

\* C38 witness: the second source ended after one tick; the two-input sink
\* had taken the second envelope of the first source when its other input
\* reported DropRecv: it returned with one update and a log of the first
\* tick only, the envelope taken being in neither.
C38_Witness ==
  /\ g = TwoSources(2)
  /\ actor[3].result = "DropRecv"
  /\ actor[3].updates = 1
  /\ actor[3].reads = << <<1, 1>> >>
  /\ actor[3].client.log = <<1, 1>>
  /\ hist.recvd[1] = <<1, 2>>
  /\ hist.recvd[3] = <<1>>
  /\ Discarded(3, 1) = <<2>>
  /\ Discarded(3, 2) = <<>>

----------------------------------------------------------------------------
(* Feedback loops run with and without a bootstrapped output               *)

\* The two-actor cycle and the multi-rate loop without any bootstrap, and
\* the same multi-rate loop bootstrapped on the upsampler.
LoopGraphs ==
  UNION {{Cycle(k), Loop(k, FALSE, FALSE, FALSE),
          Loop(k, FALSE, FALSE, TRUE)} : k \in 0..NStep}

LoopSpec == Starts(LoopGraphs) /\ [][Next]_vars

\* The attached channels that lie on a cycle of links none of which is
\* bootstrapped: the consumer of c feeds, over such links, its producer.
CycleChannels ==
  {c \in Attached :
     /\ ~Flagged(c)
     /\ Producer(c) \in Reach({Consumer(c)}, 0, Cardinality(Actors))}

\* C39: a feedback cycle without a bootstrapped output, if run, is blocked
\* from the start and for ever.  No envelope is ever sent on a channel of
\* the cycle, which stays empty with both ends alive; every recv on it is
\* pending and can neither complete nor fail; every actor on the cycle is in
\* its first collect, whatever step it takes, without any update, consume
\* or distribute, and has not returned.
C39_UnbootstrappedCycleBlocks ==
  /\ \A c \in CycleChannels :
       /\ OnCycle(Producer(c), 0) /\ OnCycle(Consumer(c), 0)
       /\ g.capacity[c] = DefaultCapacity
       /\ hist.sent[c] = <<>>
       /\ channel[c] = [queue |-> <<>>, sender |-> TRUE, receiver |-> TRUE]
       /\ ~SendPending(Producer(c), c)
       /\ \A i \in DOMAIN g.inputs[Consumer(c)] :
            g.inputs[Consumer(c)][i] = c =>
              /\ actor[Consumer(c)].rx[i].st = "pending"
              /\ ~CanRecvOk(State, Consumer(c), i)
              /\ ~CanRecvErr(State, Consumer(c), i)
  /\ \A a \in Actors :
       OnCycle(a, 0) =>
         /\ Range(g.inputs[a]) \cap CycleChannels # {}
         /\ Senders(a) \cap CycleChannels # {}
         /\ actor[a].pc = "collect"
         /\ actor[a].phase = "run"
         /\ actor[a].result = "running"
         /\ actor[a].updates = 0
         /\ actor[a].reads = <<>>
         /\ actor[a].client = ClientDefault
         /\ actor[a].distributes = [bootstrap |-> 0, run |-> 0]
         /\ \A o \in Ops(State) :
              o.a = a => /\ o.op \in {"RecvOk", "RecvErr"}
                         /\ g.inputs[a][o.p] \notin CycleChannels
                         /\ After(a, o).pc = "collect"
                         /\ After(a, o).updates = 0

\* C39 witness: the multi-rate loop without any bootstrap has come to rest
\* with nothing left to run: the source waits in its third send, the plant
\* holds the first envelope of the source and waits for the upsampler, and
\* the decimator and the upsampler wait for their first envelope.
C39_Witness ==
  /\ g = Loop(3, FALSE, FALSE, FALSE)
  /\ ~CanStep
  /\ actor[1].pc = "send"
  /\ hist.sent[1] = <<1, 2>>
  /\ hist.recvd[1] = <<1>>
  /\ actor[2].rx[1].st = "ok"
  /\ actor[2].rx[2].st = "pending"
  /\ \A a \in {2, 3, 4} : actor[a].pc = "collect" /\ actor[a].updates = 0
  /\ \A c \in {2, 3, 4, 5} : hist.sent[c] = <<>>

----------------------------------------------------------------------------
\* The inputs, over all actors, attached to the output built by the
\* statement under way.
Links ==
  LET os == g.outputs[handle.p]
  IN UNION {InputsOf(c) : c \in Range(os[Len(os)].tx)}

\* C40: into_input on a handle that holds no receiver is a no-op.  It
\* returns the network and the empty handle as they were, for any consumer,
\* and nothing else: the inputs of the consumer, the producer and the
\* channels are unchanged.  After more into_input than the output has
\* channels there are only as many links to the output as it has channels:
\* a consumer of the statement got none.
C40_ExhaustedHandleNoOp ==
  /\ (handle.stage = "handle" /\ handle.rx = <<>>) =>
       \A q \in Actors :
         IntoInputs(g, handle.p, q) =>
           LET r == into_input(g, handle.rx, q)
           IN /\ DOMAIN r = {"graph", "rx"}
              /\ r.rx = <<>>
              /\ r.graph.inputs[q] = g.inputs[q]
              /\ r.graph.outputs[handle.p] = g.outputs[handle.p]
              /\ r.graph = g
  /\ handle.stage = "handle" =>
       /\ Cardinality(Links) + Len(handle.rx) = Len(handle.capacity)
       /\ handle.calls > Len(handle.capacity) =>
            /\ handle.rx = <<>>
            /\ Cardinality(Links) < handle.calls

\* C40 witness: a statement with one channel and two into_input: there is
\* one link to the output, one consumer that can take the output has no
\* input at all, and the handle is empty.
C40_Witness ==
  /\ handle.stage = "handle"
  /\ handle.capacity = <<DefaultCapacity>>
  /\ handle.calls = 2
  /\ handle.rx = <<>>
  /\ g.capacity = <<DefaultCapacity>>
  /\ Cardinality(Links) = 1
  /\ \E q \in Actors : IntoInputs(g, handle.p, q) /\ g.inputs[q] = <<>>

============================================================================
